---- MODULE Spec2Model ----
(***************************************************************************)
(* A model of the ProAct.js reactive core: ProAct.Observable               *)
(* (src/js/objects/observable.js), ProAct.Stream (src/js/streams/stream.js) *)
(* and the scheduler ProAct.Flow they call (Pro.flow).                      *)
(*                                                                         *)
(* The program is single threaded.  A state of the model is a state of the *)
(* program between two callback invocations of the scheduler: the heap of  *)
(* Observables (obs), the scheduler (flow), plus history variables that    *)
(* record what was invoked (log), what was updated (upd), what was         *)
(* triggered (trigs) and the last graph operation (ops); core is the       *)
(* reactify call of ProAct.prob / ProAct.ObjectCore in progress.            *)
(***************************************************************************)
EXTENDS Integers, Sequences, FiniteSets, TLC

VARIABLES obs, made, flow, log, upd, trigs, ops, core

vars == <<obs, made, flow, log, upd, trigs, ops, core>>

(***************************************************************************)
(* Bounds of the exploration.                                              *)
(***************************************************************************)
MaxList == 2
MaxTriggers == 2
MaxStages == 2
MaxRegs == 4
MaxFairTriggers == 1
MaxPipeTriggers == 3

(***************************************************************************)
(* The universe: Stream objects, one Property object, callbacks.           *)
(***************************************************************************)
Streams == {1, 2, 3}
PropNode == 0
Nodes == Streams \cup {PropNode}

\* Callback identities.  L/E are the forwarding callbacks a Stream builds in
\* makeListener/makeErrListener, "c" are plain consumer functions, "pl" is a
\* listener object carrying a `property` field (its Property is PropNode).
CB(k, n) == [k |-> k, n |-> n]
NullCB == CB("null", 0)
LCb(n) == CB("L", n)
ECb(n) == CB("E", n)
Consumers == {CB("c", 1), CB("c", 2)}
PropListener == CB("pl", PropNode)

\* Values travelling through the graph: plain values, the BadValue sentinel,
\* errors and Event envelopes (source value kept in v).
Val(v) == [t |-> "val", v |-> v]
ErrVal(v) == [t |-> "err", v |-> v]

\* observable.js:48  BadValue: {}
BadValue == [t |-> "bad", v |-> 0]

\* observable.js:26-37  the fields a new Observable starts with
NewObservable ==
  [listeners |-> <<>>, errListeners |-> <<>>, sources |-> <<>>,
   listener |-> NullCB, errListener |-> NullCB,
   transforms |-> <<>>, parent |-> NullCB]

\* listener.property of a callback (observable.js:268, stream.js:135)
HasProperty(cb) == cb.k = "pl"

\* observable.js:273  this.parent && this.parent.call: a parent of kind "np"
\* is an object without a call method.
Invocable(cb) == cb # NullCB /\ cb.k # "np"

IsStream(n) == n \in Streams

(***************************************************************************)
(* Sequence helpers.                                                       *)
(***************************************************************************)
RECURSIVE Count(_, _)
Count(s, x) ==
  IF s = <<>> THEN 0
  ELSE (IF Head(s) = x THEN 1 ELSE 0) + Count(Tail(s), x)

IndexOf(s, x) ==
  IF \E i \in 1..Len(s) : s[i] = x
    THEN CHOOSE i \in 1..Len(s) : s[i] = x /\ \A j \in 1..(i - 1) : s[j] # x
    ELSE 0

\* Pro.U.remove(array, value): drops the first occurrence of value, if any.
Remove(s, x) ==
  LET i == IndexOf(s, x)
  IN  IF i = 0 THEN s
      ELSE SubSeq(s, 1, i - 1) \o SubSeq(s, i + 1, Len(s))

(***************************************************************************)
(* Observable: registration of listeners and edges.                        *)
(***************************************************************************)
\* observable.js:135-147  on(action, callback, callbacks) with a callback as
\* first argument: pushed on `callbacks` if given, else on this.listeners.
On(o, n, cb, errList) ==
  IF errList
    THEN [o EXCEPT ![n].errListeners = Append(@, cb)]
    ELSE [o EXCEPT ![n].listeners = Append(@, cb)]

\* An onErr that registers on the value list.
OnErrOnValueTrack(o, n, cb) == On(o, n, cb, FALSE)

\* observable.js:171-173
OnErr(o, n, cb) == On(o, n, cb, TRUE)

\* observable.js:149-169  off(action, callback, callbacks), callback absent:
\* a falsy action clears the targeted list, otherwise the action is removed.
Off(o, n, cb, errList) ==
  IF cb = NullCB
    THEN IF errList
           THEN [o EXCEPT ![n].errListeners = <<>>]
           ELSE [o EXCEPT ![n].listeners = <<>>]
    ELSE IF errList
           THEN [o EXCEPT ![n].errListeners = Remove(@, cb)]
           ELSE [o EXCEPT ![n].listeners = Remove(@, cb)]

\* observable.js:175-177
OffErr(o, n, cb) == Off(o, n, cb, TRUE)

\* stream.js:79-88  the forwarding listener is built once and kept
MakeListener(o, n) ==
  IF o[n].listener = NullCB THEN [o EXCEPT ![n].listener = LCb(n)] ELSE o

\* stream.js:102-111
MakeErrListener(o, n) ==
  IF o[n].errListener = NullCB THEN [o EXCEPT ![n].errListener = ECb(n)] ELSE o

\* An into that skips a source it is already wired to.
IntoOneDedup(o, n, s) ==
  IF Count(o[n].sources, s) > 0 THEN o
  ELSE LET o1 == [o EXCEPT ![n].sources = Append(@, s)]
           o2 == MakeListener(o1, n)
           o3 == On(o2, s, o2[n].listener, FALSE)
           o4 == MakeErrListener(o3, n)
       IN  OnErr(o4, s, o4[n].errListener)

\* observable.js:183-186  one round of the loop of into
IntoOne(o, n, s) ==
  LET o1 == [o EXCEPT ![n].sources = Append(@, s)]
      o2 == MakeListener(o1, n)
      o3 == On(o2, s, o2[n].listener, FALSE)
      o4 == MakeErrListener(o3, n)
  IN  OnErr(o4, s, o4[n].errListener)

\* observable.js:179-190  into(source, ...)
RECURSIVE Into(_, _, _)
Into(o, n, srcs) ==
  IF srcs = <<>> THEN o
  ELSE Into(IntoOne(o, n, Head(srcs)), n, Tail(srcs))

\* observable.js:192-196  out(destination)
Out(o, n, d) == Into(o, d, <<n>>)

\* A half-torn removal: the error direction of the edge is left in place.
OffSourceNoErr(o, n, s) ==
  LET o1 == [o EXCEPT ![n].sources = Remove(@, s)]
  IN  Off(o1, s, o1[n].listener, FALSE)

\* observable.js:198-204  offSource(source)
OffSource(o, n, s) ==
  LET o1 == [o EXCEPT ![n].sources = Remove(@, s)]
      o2 == Off(o1, s, o1[n].listener, FALSE)
  IN  OffErr(o2, s, o2[n].errListener)

(***************************************************************************)
(* Observable: the transform pipeline.  A stage is a record: op is the     *)
(* builder that made it, f names the function given to the builder and val *)
(* is the running-state cell an accumulation closure captures.             *)
(***************************************************************************)
Stage(op, f, val) == [op |-> op, f |-> f, val |-> val]

\* The functions handed to the builders by the callers.
MapF(f, x) == IF f = "inc" THEN x + 1 ELSE IF f = "boom" THEN x ELSE 2 * x
PredF(f, x) == IF f = "pos" THEN x > 0 ELSE x % 2 = 0
CombF(f, a, x) == IF f = "add" THEN a + x ELSE a * x

\* The mapping function "boom" throws on the values from ThrowsFrom on.
ThrowsFrom == 7
Throws(f, x) == f = "boom" /\ x >= ThrowsFrom

\* An exception leaving a transformation, and the test for it.
Thrown(x) == [t |-> "thrown", v |-> x]
IsThrown(val) == val.t = "thrown"

\* observable.js:206-209  transform(transformation)
AddTransform(o, n, stg) == [o EXCEPT ![n].transforms = Append(@, stg)]

\* observable.js:211-213
Mapping(o, n, f) == AddTransform(o, n, Stage("map", f, 0))

\* observable.js:215-223
Filtering(o, n, f) == AddTransform(o, n, Stage("filter", f, 0))

\* observable.js:225-231  val = initVal is captured per call
Accumulation(o, n, initVal, f) == AddTransform(o, n, Stage("acc", f, initVal))

\* An accumulation whose running state is not kept between calls.
ApplyStageNoState(stg, val) ==
  CASE stg.op = "map" ->
         [val |-> IF Throws(stg.f, val.v) THEN Thrown(val.v)
                  ELSE [val EXCEPT !.v = MapF(stg.f, val.v)],
          stg |-> stg]
    [] stg.op = "filter" ->
         [val |-> IF PredF(stg.f, val.v) THEN val ELSE BadValue, stg |-> stg]
    [] OTHER ->
         [val |-> [val EXCEPT !.v = CombF(stg.f, stg.val, val.v)], stg |-> stg]

\* t[i].call(observable, val): the value a stage returns and the stage after
\* the call (observable.js:217-222 filtering, 227-230 accumulation).
ApplyStage(stg, val) ==
  CASE stg.op = "map" ->
         [val |-> IF Throws(stg.f, val.v) THEN Thrown(val.v)
                  ELSE [val EXCEPT !.v = MapF(stg.f, val.v)],
          stg |-> stg]
    [] stg.op = "filter" ->
         [val |-> IF PredF(stg.f, val.v) THEN val ELSE BadValue, stg |-> stg]
    [] OTHER ->
         LET nv == CombF(stg.f, stg.val, val.v)
         IN  [val |-> [val EXCEPT !.v = nv], stg |-> [stg EXCEPT !.val = nv]]

\* A loop that never stops early.
StopsNever(val) == FALSE

\* observable.js:67-69  the loop stops at BadValue
StopsAt(val) == val = BadValue

\* observable.js:63-73  ProAct.Observable.transform(observable, val): the
\* loop from stage i on.  Returns the value and the stages after the call; an
\* exception thrown by a stage leaves the loop with the stages as they are.
RECURSIVE TransformFrom(_, _, _)
TransformFrom(ts, i, val) ==
  IF i > Len(ts) THEN [val |-> val, ts |-> ts]
  ELSE LET r == ApplyStage(ts[i], val)
           ts1 == [ts EXCEPT ![i] = r.stg]
       IN  IF StopsAt(r.val) \/ IsThrown(r.val) THEN [val |-> r.val, ts |-> ts1]
           ELSE TransformFrom(ts1, i + 1, r.val)

Transform(ts, val) == TransformFrom(ts, 1, val)

(***************************************************************************)
(* Flow, the scheduler (Pro.flow).  queue holds the entries of the open    *)
(* batch in enqueue order, pos is the number of them already invoked.      *)
(* batch counts the batches opened; nested records a run() made while a    *)
(* batch was open.  lastWins is the scheduler's policy for the arguments   *)
(* of a pushOnce that finds its callback queued.                           *)
(***************************************************************************)
Entry(cb, arg) == [cb |-> cb, arg |-> arg]

NewFlow(lastWins) ==
  [running |-> FALSE, queue |-> <<>>, pos |-> 0, batch |-> 0,
   nested |-> FALSE, lastWins |-> lastWins]

\* Flow.isRunning()
IsRunning(f) == f.running

\* Flow.run(body), up to the call of body: marks the batch open.
FlowRun(f) ==
  [f EXCEPT !.nested = f.nested \/ f.running, !.running = TRUE,
            !.batch = f.batch + 1]

\* Flow.push(callback, args): unconditional enqueue.
Push(f, cb, arg) == [f EXCEPT !.queue = Append(@, Entry(cb, arg))]

\* Flow.pushOnce(callback, args): enqueue unless the callback identity is
\* already queued in the current batch.
PushOnce(f, cb, arg) ==
  LET i == IndexOf([j \in 1..Len(f.queue) |-> f.queue[j].cb], cb)
  IN  IF i = 0 THEN Push(f, cb, arg)
      ELSE IF f.lastWins /\ i > f.pos
             THEN [f EXCEPT !.queue[i].arg = arg]
             ELSE f

\* Entries of the open batch not invoked yet.
Pending(f) == SubSeq(f.queue, f.pos + 1, Len(f.queue))

\* The drain takes the next entry.
TakeNext(f) == [f EXCEPT !.pos = f.pos + 1]

\* The queue is empty: run() marks not-running and returns.
FlowClose(f) == [f EXCEPT !.running = FALSE, !.queue = <<>>, !.pos = 0]

(***************************************************************************)
(* Observable/Stream: the update protocol.  These operators act on a       *)
(* record st = [obs, flow, upd] and return it after the call.              *)
(***************************************************************************)
\* A Stream that does not override makeEvent.
MakeEventEnvelope(n, source) == [t |-> "event", v |-> source.v]

\* observable.js:131-133 (an Event envelope) and stream.js:63-65 (identity)
MakeEvent(n, source) ==
  IF IsStream(n) THEN source ELSE [t |-> "event", v |-> source.v]

\* observable.js:280-287  defer: the dedup discipline
ObservableDefer(f, event, cb) == PushOnce(f, cb, event)

\* A Stream that does not override defer: every listener is deduplicated.
StreamDeferOnce(f, event, cb) == ObservableDefer(f, event, cb)

\* A Stream that ignores the property tag: every listener is pushed.
StreamDeferPush(f, event, cb) == Push(f, cb, event)

\* stream.js:134-145  defer of a Stream
StreamDefer(f, event, cb) ==
  IF HasProperty(cb) THEN ObservableDefer(f, event, cb)
  ELSE Push(f, cb, event)

Defer(f, n, event, cb) ==
  IF IsStream(n) THEN StreamDefer(f, event, cb) ELSE ObservableDefer(f, event, cb)

\* observable.js:259  the list a round notifies
TargetList(o, n, errList) ==
  IF errList THEN o[n].errListeners ELSE o[n].listeners

Reverse(s) == [i \in 1..Len(s) |-> s[Len(s) + 1 - i]]

\* observable.js:263  the order in which the round walks its list
RoundOrder(list) == list

RECURSIVE WillUpdate(_, _, _, _)
RECURSIVE DeferAll(_, _, _, _)

\* observable.js:263-271  the loop of willUpdate over the snapshot
DeferAll(st, n, event, list) ==
  IF list = <<>> THEN st
  ELSE LET cb == Head(list)
           s1 == [st EXCEPT !.flow = Defer(st.flow, n, event, cb)]
           s2 == IF HasProperty(cb)
                   THEN WillUpdate(s1, cb.n, event, FALSE)
                   ELSE s1
       IN  DeferAll(s2, n, event, Tail(list))

\* The flow after callback cb was deferred k times by node n.
RECURSIVE DeferTimes(_, _, _, _, _)
DeferTimes(f, n, event, cb, k) ==
  IF k = 0 THEN f ELSE DeferTimes(Defer(f, n, event, cb), n, event, cb, k - 1)

\* A willUpdate that defers the parent inside the loop, once per listener.
WillUpdateParentPerListener(st, n, source, errList) ==
  LET list == TargetList(st.obs, n, errList)
      event == MakeEvent(n, source)
      s0 == [st EXCEPT !.upd = Append(@,
               [n |-> n, ev |-> event, b |-> st.flow.batch,
                err |-> errList, list |-> list, par |-> st.obs[n].parent])]
      s1 == DeferAll(s0, n, event, RoundOrder(list))
  IN  IF Invocable(st.obs[n].parent)
        THEN [s1 EXCEPT !.flow =
                DeferTimes(s1.flow, n, event, st.obs[n].parent, Len(list))]
        ELSE s1

\* A willUpdate that defers the parent on value rounds only.
WillUpdateParentOnValueRounds(st, n, source, errList) ==
  LET list == TargetList(st.obs, n, errList)
      event == MakeEvent(n, source)
      s0 == [st EXCEPT !.upd = Append(@,
               [n |-> n, ev |-> event, b |-> st.flow.batch,
                err |-> errList, list |-> list, par |-> st.obs[n].parent])]
      s1 == DeferAll(s0, n, event, RoundOrder(list))
  IN  IF Invocable(st.obs[n].parent) /\ ~errList
        THEN [s1 EXCEPT !.flow = Defer(s1.flow, n, event, st.obs[n].parent)]
        ELSE s1

\* observable.js:257-278  willUpdate(source, callbacks)
WillUpdate(st, n, source, errList) ==
  LET list == TargetList(st.obs, n, errList)
      event == MakeEvent(n, source)
      s0 == [st EXCEPT !.upd = Append(@,
               [n |-> n, ev |-> event, b |-> st.flow.batch,
                err |-> errList, list |-> list, par |-> st.obs[n].parent])]
      s1 == DeferAll(s0, n, event, RoundOrder(list))
  IN  IF Invocable(st.obs[n].parent)
        THEN [s1 EXCEPT !.flow = Defer(s1.flow, n, event, st.obs[n].parent)]
        ELSE s1

\* observable.js:242  the fast path of update
NothingToNotify(o, n) ==
  o[n].listeners = <<>> /\ o[n].errListeners = <<>> /\ o[n].parent = NullCB

\* An update that opens a batch whatever the scheduler's state.
OpensBatchAlways(f) == TRUE

\* observable.js:247  update opens a batch only when none is open
OpensBatch(f) == ~IsRunning(f)

\* An update without the fast path.
UpdateNoFastPath(st, n, source, errList) ==
  IF OpensBatch(st.flow)
    THEN WillUpdate([st EXCEPT !.flow = FlowRun(st.flow)], n, source, errList)
    ELSE WillUpdate(st, n, source, errList)

\* An update that notifies nobody when a batch is already open.
UpdateTopOnly(st, n, source, errList) ==
  IF NothingToNotify(st.obs, n) \/ ~OpensBatch(st.flow) THEN st
  ELSE WillUpdate([st EXCEPT !.flow = FlowRun(st.flow)], n, source, errList)

\* observable.js:241-255  update(source, callbacks)
Update(st, n, source, errList) ==
  IF NothingToNotify(st.obs, n) THEN st
  ELSE IF OpensBatch(st.flow)
         THEN WillUpdate([st EXCEPT !.flow = FlowRun(st.flow)], n, source, errList)
         ELSE WillUpdate(st, n, source, errList)

\* stream.js:28-34  new P.S(source): the new Stream m, wired into source
NewStreamFrom(o, m, source) ==
  Into([o EXCEPT ![m] = NewObservable], m, <<source>>)

\* A map that appends its stage to the Stream it is called on.
MapInPlace(o, m, n, f) == Mapping(o, n, f)

\* stream.js:223-225  n.map(f): the new Stream is m
Map(o, m, n, f) == Mapping(NewStreamFrom(o, m, n), m, f)

\* stream.js:240-242  n.filter(f)
Filter(o, m, n, f) == Filtering(NewStreamFrom(o, m, n), m, f)

\* stream.js:259-261  n.accumulate(initVal, f)
Accumulate(o, m, n, initVal, f) ==
  Accumulation(NewStreamFrom(o, m, n), m, initVal, f)

\* stream.js:186-188
TriggerErr(st, n, err) == Update(st, n, err, TRUE)

\* A go whose catch block drops the error.
GoDropsError(st, n, event, useTransformations) ==
  LET r == IF useTransformations
             THEN Transform(st.obs[n].transforms, event)
             ELSE [val |-> event, ts |-> st.obs[n].transforms]
      s1 == [st EXCEPT !.obs[n].transforms = r.ts]
  IN  IF IsThrown(r.val) \/ r.val = BadValue THEN s1
      ELSE Update(s1, n, r.val, FALSE)

\* A go that keeps what the pipeline did to its cells only when it emits.
GoCommitsOnEmit(st, n, event, useTransformations) ==
  LET r == IF useTransformations
             THEN Transform(st.obs[n].transforms, event)
             ELSE [val |-> event, ts |-> st.obs[n].transforms]
      s1 == [st EXCEPT !.obs[n].transforms = r.ts]
  IN  IF IsThrown(r.val) THEN TriggerErr(st, n, ErrVal(r.val.v))
      ELSE IF r.val = BadValue THEN st
      ELSE Update(s1, n, r.val, FALSE)

\* stream.js:191-208  go(event, useTransformations): an exception of the
\* pipeline is caught (197-200) and handed to triggerErr.
Go(st, n, event, useTransformations) ==
  LET r == IF useTransformations
             THEN Transform(st.obs[n].transforms, event)
             ELSE [val |-> event, ts |-> st.obs[n].transforms]
      s1 == [st EXCEPT !.obs[n].transforms = r.ts]
  IN  IF IsThrown(r.val) THEN TriggerErr(s1, n, ErrVal(r.val.v))
      ELSE IF r.val = BadValue THEN s1
      ELSE Update(s1, n, r.val, FALSE)

\* stream.js:164-169
Trigger(st, n, event, useTransformations) == Go(st, n, event, useTransformations)

\* An off that also retracts the queued invocations of the callback.
OffRetracts(st, n, cb) ==
  [st EXCEPT !.obs = Off(st.obs, n, cb, FALSE),
             !.flow.queue = SelectSeq(@, LAMBDA e : e.cb # cb)]

\* observable.js:149-169  n.off(cb) called by a callback while a batch is
\* open: the list is edited, the scheduler is not touched.
OffInBatch(st, n, cb) == [st EXCEPT !.obs = Off(st.obs, n, cb, FALSE)]

\* What a queued callback does when the drain invokes it with arg:
\* stream.js:82-84 (forwarding listener), stream.js:105-107 (forwarding
\* error listener); consumers and property listeners touch no Stream.
Call(st, cb, arg) ==
  CASE cb.k = "L" -> Trigger(st, cb.n, arg, TRUE)
    [] cb.k = "E" -> TriggerErr(st, cb.n, arg)
    [] OTHER -> st

(***************************************************************************)
(* The state machine.                                                      *)
(***************************************************************************)
St == [obs |-> obs, flow |-> flow, upd |-> upd]

Becomes(st) == obs' = st.obs /\ flow' = st.flow /\ upd' = st.upd

Idle == ~IsRunning(flow)

\* Wiring happens before the first trigger.
Wiring == trigs = <<>>

\* The next Stream object `new P.S()` returns.
Fresh == CHOOSE n \in Streams \ made : \A m \in Streams \ made : n <= m

RECURSIVE SumLen(_, _)
SumLen(o, ns) ==
  IF ns = {} THEN 0
  ELSE LET n == CHOOSE x \in ns : TRUE
       IN  Len(o[n].listeners) + SumLen(o, ns \ {n})

Regs == SumLen(obs, Nodes)

HasRoom(n, s) ==
  /\ Len(obs[n].sources) < MaxList
  /\ Len(obs[s].listeners) < MaxList
  /\ Len(obs[s].errListeners) < MaxList

OpRec(op, n, s) == [op |-> op, n |-> n, s |-> s]
NoOp == OpRec("none", 0, 0)

\* No reactify call has been made.
NoCore == [pc |-> "none"]

InitWith(lastWinsChoices) ==
  /\ obs = [n \in Nodes |-> NewObservable]
  /\ made = {}
  /\ flow \in {NewFlow(p) : p \in lastWinsChoices}
  /\ log = <<>>
  /\ upd = <<>>
  /\ trigs = <<>>
  /\ ops = NoOp
  /\ core = NoCore

Init == InitWith(BOOLEAN)

\* History: the last edge operation; an offSource(n, s) that directly follows
\* into(n, s) is recorded as the round trip "intoOff".
Records(op, n, s) ==
  ops' = IF op = "offSource" /\ ops = OpRec("into", n, s)
           THEN OpRec("intoOff", n, s)
           ELSE OpRec(op, n, s)

\* stream.js:28-34  new P.S()
NewStream ==
  /\ Idle
  /\ made # Streams
  /\ made' = made \cup {Fresh}
  /\ obs' = [obs EXCEPT ![Fresh] = NewObservable]
  /\ UNCHANGED <<flow, log, upd, trigs, ops, core>>

\* n.into(s)
IntoStep(n, s) ==
  /\ Idle
  /\ n \in made /\ s \in made
  /\ HasRoom(n, s)
  /\ obs' = Into(obs, n, <<s>>)
  /\ UNCHANGED <<made, flow, log, upd, trigs, core>>

\* n.out(d)
OutStep(n, d) ==
  /\ Idle
  /\ n \in made /\ d \in made
  /\ HasRoom(d, n)
  /\ obs' = Out(obs, n, d)
  /\ UNCHANGED <<made, flow, log, upd, trigs, core>>

\* n.offSource(s)
OffSourceStep(n, s) ==
  /\ Idle
  /\ n \in made /\ s \in made
  /\ obs' = OffSource(obs, n, s)
  /\ UNCHANGED <<made, flow, log, upd, trigs, core>>

\* n.on(cb) by a consumer of the library
OnStep(n, cb) ==
  /\ Idle
  /\ n \in made \cup {PropNode}
  /\ ~(HasProperty(cb) /\ n = cb.n)
  /\ Len(obs[n].listeners) < MaxList
  /\ obs' = On(obs, n, cb, FALSE)
  /\ UNCHANGED <<made, flow, log, upd, trigs, core>>

(***************************************************************************)
(* SpecGraph: the edge operations alone, on every pair of Streams.         *)
(***************************************************************************)
GraphStreams == {1, 2}

GNewStream == NewStream /\ Fresh \in GraphStreams

GInto == \E n \in GraphStreams, s \in GraphStreams :
  IntoStep(n, s) /\ Records("into", n, s)

GOut == \E n \in GraphStreams, d \in GraphStreams :
  OutStep(n, d) /\ Records("into", d, n)

GOffSource == \E n \in GraphStreams, s \in GraphStreams :
  OffSourceStep(n, s) /\ Records("offSource", n, s)

GOn == \E n \in GraphStreams, cb \in {CB("c", 1)} :
  OnStep(n, cb) /\ Records("on", n, n)

NextGraph == GNewStream \/ GInto \/ GOut \/ GOffSource \/ GOn

SpecGraph == InitWith({TRUE}) /\ [][NextGraph]_vars

(***************************************************************************)
(* Spec: Streams wired into an acyclic graph (edges lead from a Stream to  *)
(* a Stream made later), consumers, triggers and the drain of the batch.   *)
(***************************************************************************)
TrigVals == {5, 7, 9}
TrigSeq == <<5, 7, 9>>

\* History: one record per call of trigger from outside the graph; top says
\* that no batch was open, pre/post are the pipeline before and after, b is
\* the batch the call opened or ran in (0: none).
TrigRec(n, v, st2) ==
  [n |-> n, v |-> v, err |-> FALSE, top |-> Idle,
   pre |-> obs[n].transforms, post |-> st2.obs[n].transforms,
   b |-> IF st2.flow.batch > flow.batch THEN st2.flow.batch
         ELSE IF Idle THEN 0 ELSE flow.batch]

\* History: a call of triggerErr from outside the graph.
TrigErrRec(n, v, st2) == [TrigRec(n, v, st2) EXCEPT !.err = TRUE]

\* stream.js:276-281  a.merge(b): the new Stream m, wired into a and b
Merge(o, m, a, b) == Into([o EXCEPT ![m] = NewObservable], m, <<a, b>>)

IntoAct == \E n \in Streams, s \in Streams :
  /\ s < n
  /\ Wiring
  /\ Regs < MaxRegs
  /\ IntoStep(n, s)
  /\ UNCHANGED ops

MergeAct == \E a \in made, b \in made :
  /\ Idle
  /\ a # b
  /\ Wiring
  /\ Regs + 1 < MaxRegs
  /\ made # Streams
  /\ Len(obs[a].listeners) < MaxList /\ Len(obs[b].listeners) < MaxList
  /\ obs' = Merge(obs, Fresh, a, b)
  /\ made' = made \cup {Fresh}
  /\ UNCHANGED <<flow, log, upd, trigs, ops, core>>

OnAct == \E n \in Nodes, cb \in Consumers \cup {PropListener} :
  /\ Regs < MaxRegs
  /\ Wiring
  /\ n = PropNode => cb = CB("c", 2)
  /\ OnStep(n, cb)
  /\ UNCHANGED ops

\* n.trigger(v) called while no batch is open
TriggerStep(n, v) ==
  /\ Idle
  /\ n \in made
  /\ LET st2 == Trigger(St, n, Val(v), TRUE)
     IN  Becomes(st2) /\ trigs' = Append(trigs, TrigRec(n, v, st2))
  /\ UNCHANGED <<made, log, ops, core>>

TriggerAct == \E n \in Streams, v \in TrigVals :
  /\ v = TrigSeq[Len(trigs) + 1]
  /\ Len(trigs) < MaxTriggers
  /\ TriggerStep(n, v)

NextEntry == flow.queue[flow.pos + 1]

LogRec(e) == [cb |-> e.cb, arg |-> e.arg, b |-> flow.batch]

\* The drain invokes the next queued callback.
Invoke ==
  /\ IsRunning(flow)
  /\ Pending(flow) # <<>>
  /\ LET st1 == [St EXCEPT !.flow = TakeNext(flow)]
     IN  Becomes(Call(st1, NextEntry.cb, NextEntry.arg))
  /\ log' = Append(log, LogRec(NextEntry))
  /\ UNCHANGED <<made, trigs, ops, core>>

\* The drain invokes a consumer callback, which calls trigger on a Stream.
InvokeTrigger == \E m \in made, v \in TrigVals :
  /\ IsRunning(flow)
  /\ Pending(flow) # <<>>
  /\ NextEntry.cb \in Consumers
  /\ v = TrigSeq[Len(trigs) + 1]
  /\ Len(trigs) < MaxTriggers
  /\ LET st1 == [St EXCEPT !.flow = TakeNext(flow)]
         st2 == Trigger(st1, m, Val(v), TRUE)
     IN  Becomes(st2) /\ trigs' = Append(trigs, TrigRec(m, v, st2))
  /\ log' = Append(log, LogRec(NextEntry))
  /\ UNCHANGED <<made, ops, core>>

\* The queue is drained: Flow.run returns.
Close ==
  /\ IsRunning(flow)
  /\ Pending(flow) = <<>>
  /\ flow' = FlowClose(flow)
  /\ UNCHANGED <<obs, made, log, upd, trigs, ops, core>>

Next ==
  \/ NewStream \/ IntoAct \/ MergeAct \/ OnAct \/ TriggerAct
  \/ Invoke \/ InvokeTrigger \/ Close

Spec == Init /\ [][Next]_vars

(***************************************************************************)
(* FairSpec: acyclic graphs of Streams with one plain consumer, and the    *)
(* drain as the loop of Flow.run it is: it goes on while entries are       *)
(* queued, and run returns when none is.                                   *)
(***************************************************************************)
FOn == \E n \in Streams :
  /\ Regs < MaxRegs
  /\ Wiring
  /\ OnStep(n, CB("c", 1))
  /\ UNCHANGED ops

FTrigger == \E n \in Streams :
  /\ Len(trigs) < MaxFairTriggers
  /\ TriggerStep(n, 5)

NextFair ==
  NewStream \/ IntoAct \/ MergeAct \/ FOn \/ FTrigger \/ Invoke \/ Close

FairSpec ==
  InitWith({TRUE}) /\ [][NextFair]_vars /\ WF_vars(Invoke) /\ WF_vars(Close)

(***************************************************************************)
(* SpecPipe: one Stream with one consumer; stages are appended to its      *)
(* pipeline with the verb forms and values are triggered on it.            *)
(***************************************************************************)
PipeVals == {-1, 1, 2, 3}
PipeStream == 1
PipeConsumer == CB("c", 1)

PNew == NewStream /\ Fresh = PipeStream

POn ==
  /\ obs[PipeStream].listeners = <<>>
  /\ OnStep(PipeStream, PipeConsumer)
  /\ UNCHANGED ops

StageStep(o2) ==
  /\ Idle
  /\ PipeStream \in made
  /\ Len(obs[PipeStream].transforms) < MaxStages
  /\ obs' = o2
  /\ UNCHANGED <<made, flow, log, upd, trigs, ops, core>>

PMapping == StageStep(Mapping(obs, PipeStream, "inc"))

PFiltering == StageStep(Filtering(obs, PipeStream, "pos"))

PAccumulation == StageStep(Accumulation(obs, PipeStream, 0, "add"))

PTrigger == \E v \in PipeVals :
  /\ obs[PipeStream].listeners # <<>>
  /\ Len(trigs) < MaxPipeTriggers
  /\ TriggerStep(PipeStream, v)

NextPipe ==
  PNew \/ POn \/ PMapping \/ PFiltering \/ PAccumulation \/ PTrigger
    \/ Invoke \/ Close

SpecPipe == InitWith({TRUE}) /\ [][NextPipe]_vars

(***************************************************************************)
(* SpecMerge: Streams 1 and 2, each with at most one mapping stage, merged *)
(* into Stream 3, which a consumer listens to.                             *)
(***************************************************************************)
Merged == 3

MNew == NewStream /\ Fresh # Merged

MMapping == \E n \in Streams \ {Merged} :
  /\ Idle
  /\ Wiring
  /\ n \in made
  /\ obs[n].transforms = <<>>
  /\ obs' = Mapping(obs, n, "inc")
  /\ UNCHANGED <<made, flow, log, upd, trigs, ops, core>>

MMerge == MergeAct /\ Fresh = Merged /\ obs'[Merged].sources = <<1, 2>>

MOn == \E n \in Streams, cb \in Consumers :
  /\ Wiring
  /\ Count(obs[n].listeners, cb) = 0
  /\ cb = CB("c", 1) <=> n = Merged
  /\ OnStep(n, cb)
  /\ UNCHANGED ops

MTrigger == \E n \in Streams, v \in TrigVals :
  /\ v = TrigSeq[Len(trigs) + 1]
  /\ Len(trigs) < MaxTriggers
  /\ TriggerStep(n, v)

NextMerge == MNew \/ MMapping \/ MMerge \/ MOn \/ MTrigger \/ Invoke \/ Close

SpecMerge == Init /\ [][NextMerge]_vars

(***************************************************************************)
(* SpecErr: Streams wired into an acyclic graph, at most one mapping stage *)
(* "boom" per Stream, the consumer ValConsumer on value lists and the      *)
(* consumer ErrConsumer on error lists; trigger and triggerErr are called  *)
(* from outside on any Stream.                                             *)
(***************************************************************************)
MaxErrRegs == 3
ErrVals == {5, 7}
ValConsumer == CB("c", 1)
ErrConsumer == CB("c", 2)

\* n.onErr(cb) by a consumer of the library
OnErrStep(n, cb) ==
  /\ Idle
  /\ n \in made
  /\ Len(obs[n].errListeners) < MaxList
  /\ obs' = OnErr(obs, n, cb)
  /\ UNCHANGED <<made, flow, log, upd, trigs, core>>

\* n.triggerErr(e) called while no batch is open
TriggerErrStep(n, v) ==
  /\ Idle
  /\ n \in made
  /\ LET st2 == TriggerErr(St, n, ErrVal(v))
     IN  Becomes(st2) /\ trigs' = Append(trigs, TrigErrRec(n, v, st2))
  /\ UNCHANGED <<made, log, ops, core>>

EInto == \E n \in Streams, s \in Streams :
  /\ s < n
  /\ Wiring
  /\ Regs < MaxErrRegs
  /\ Count(obs[n].sources, s) = 0
  /\ IntoStep(n, s)
  /\ UNCHANGED ops

EOn == \E n \in Streams :
  /\ Wiring
  /\ Regs < MaxErrRegs
  /\ Count(obs[n].listeners, ValConsumer) = 0
  /\ OnStep(n, ValConsumer)
  /\ UNCHANGED ops

EOnErr == \E n \in Streams :
  /\ Wiring
  /\ \A m \in Streams : Count(obs[m].errListeners, ErrConsumer) = 0
  /\ OnErrStep(n, ErrConsumer)
  /\ UNCHANGED ops

EMapping == \E n \in Streams :
  /\ Idle
  /\ Wiring
  /\ n \in made
  /\ obs[n].transforms = <<>>
  /\ obs' = Mapping(obs, n, "boom")
  /\ UNCHANGED <<made, flow, log, upd, trigs, ops, core>>

ETrigger == \E n \in Streams, v \in ErrVals :
  /\ Len(trigs) < MaxTriggers
  /\ TriggerStep(n, v)

ETriggerErr == \E n \in Streams :
  /\ Len(trigs) < MaxTriggers
  /\ TriggerErrStep(n, 5)

NextErr ==
  \/ NewStream \/ EInto \/ EOn \/ EOnErr \/ EMapping
  \/ ETrigger \/ ETriggerErr \/ Invoke \/ Close

SpecErr == InitWith({TRUE}) /\ [][NextErr]_vars

(***************************************************************************)
(* SpecParent: Streams 1 and 2 and the Property, each with or without a    *)
(* parent (the Core that owns the node sets it), an accumulation stage on  *)
(* a Stream, consumers, trigger and triggerErr from outside.               *)
(***************************************************************************)
MaxParRegs == 3
ParentStreams == {1, 2}
ParentCB(n) == CB("par", n)
NoCallParent(n) == CB("np", n)

\* The owner of node n stores a parent in n.parent.
SetParent(n, p) ==
  /\ Idle
  /\ Wiring
  /\ n \in made \cup {PropNode}
  /\ obs[n].parent = NullCB
  /\ obs' = [obs EXCEPT ![n].parent = p]
  /\ UNCHANGED <<made, flow, log, upd, trigs, ops, core>>

RNew == NewStream /\ Fresh \in ParentStreams

RSetParent == \E n \in ParentStreams \cup {PropNode} :
  \E p \in {ParentCB(n), NoCallParent(n)} : SetParent(n, p)

RInto ==
  /\ Wiring
  /\ Regs < MaxParRegs
  /\ obs[2].sources = <<>>
  /\ IntoStep(2, 1)
  /\ UNCHANGED ops

ROn == \E n \in ParentStreams \cup {PropNode} :
  \E cb \in {ValConsumer, PropListener, ErrConsumer} :
    /\ Wiring
    /\ Regs < MaxParRegs
    /\ cb = ErrConsumer <=> n = PropNode
    /\ OnStep(n, cb)
    /\ UNCHANGED ops

RAccumulation == \E n \in ParentStreams :
  /\ Idle
  /\ Wiring
  /\ n \in made
  /\ obs[n].transforms = <<>>
  /\ obs' = Accumulation(obs, n, 0, "add")
  /\ UNCHANGED <<made, flow, log, upd, trigs, ops, core>>

RTrigger == \E n \in ParentStreams :
  /\ Len(trigs) < MaxTriggers
  /\ TriggerStep(n, TrigSeq[Len(trigs) + 1])

RTriggerErr == \E n \in ParentStreams :
  /\ Len(trigs) < MaxTriggers
  /\ TriggerErrStep(n, TrigSeq[Len(trigs) + 1])

NextParent ==
  \/ RNew \/ RSetParent \/ RInto \/ ROn \/ RAccumulation
  \/ RTrigger \/ RTriggerErr \/ Invoke \/ Close

SpecParent == InitWith({TRUE}) /\ [][NextParent]_vars

(***************************************************************************)
(* SpecTrack: Streams 1 and 2 (2 may listen to 1), each with or without a  *)
(* parent, with or without listeners on either track, with or without a    *)
(* mapping stage that throws; trigger and triggerErr from outside.         *)
(***************************************************************************)
\* n.mapping(f) with an f that throws on some values
KMapping == \E n \in ParentStreams :
  /\ Idle
  /\ Wiring
  /\ n \in made
  /\ obs[n].transforms = <<>>
  /\ obs' = Mapping(obs, n, "boom")
  /\ UNCHANGED <<made, flow, log, upd, trigs, ops, core>>

\* n.onErr(consumer)
KOnErr == \E n \in ParentStreams :
  /\ Wiring
  /\ obs[n].errListeners = <<>>
  /\ OnErrStep(n, ErrConsumer)
  /\ UNCHANGED ops

\* n.on(consumer)
KOn == \E n \in ParentStreams :
  /\ Wiring
  /\ Count(obs[n].listeners, ValConsumer) = 0
  /\ OnStep(n, ValConsumer)
  /\ UNCHANGED ops

\* The owner of Stream n stores a parent in n.parent.
KSetParent == \E n \in ParentStreams :
  \E p \in {ParentCB(n), NoCallParent(n)} : SetParent(n, p)

NextTrack ==
  \/ RNew \/ KSetParent \/ RInto \/ KOn \/ KOnErr \/ KMapping
  \/ RTrigger \/ RTriggerErr \/ Invoke \/ Close

SpecTrack == InitWith({TRUE}) /\ [][NextTrack]_vars

(***************************************************************************)
(* SpecAcc: one Stream with one consumer and a pipeline of accumulation,   *)
(* filtering and throwing mapping stages, built before the first trigger;  *)
(* trigger is called with useTransformations true or false.                *)
(***************************************************************************)
MaxAccStages == 3
MaxAccTriggers == 3
AccVals == {-1, 3, 9}

AccStageStep(o2) ==
  /\ Idle
  /\ Wiring
  /\ PipeStream \in made
  /\ Len(obs[PipeStream].transforms) < MaxAccStages
  /\ obs' = o2
  /\ UNCHANGED <<made, flow, log, upd, trigs, ops, core>>

AAccumulation == AccStageStep(Accumulation(obs, PipeStream, 0, "add"))

AFiltering == AccStageStep(Filtering(obs, PipeStream, "pos"))

AMapping == AccStageStep(Mapping(obs, PipeStream, "boom"))

\* History: a call of trigger with its useTransformations argument.
AccTrigRec(n, v, ut, st2) == [ut |-> ut] @@ TrigRec(n, v, st2)

\* n.trigger(v, ut) called while no batch is open
AccTriggerStep(n, v, ut) ==
  /\ Idle
  /\ n \in made
  /\ LET st2 == Trigger(St, n, Val(v), ut)
     IN  Becomes(st2) /\ trigs' = Append(trigs, AccTrigRec(n, v, ut, st2))
  /\ UNCHANGED <<made, log, ops, core>>

ATrigger == \E v \in AccVals, ut \in BOOLEAN :
  /\ obs[PipeStream].listeners # <<>>
  /\ Len(trigs) < MaxAccTriggers
  /\ AccTriggerStep(PipeStream, v, ut)

NextAcc ==
  PNew \/ POn \/ AAccumulation \/ AFiltering \/ AMapping \/ ATrigger
    \/ Invoke \/ Close

SpecAcc == InitWith({TRUE}) /\ [][NextAcc]_vars

(***************************************************************************)
(* ProAct.prob and ProAct.ObjectCore.  A shell object is the sequence of   *)
(* its enumerable fields in for-in order, each with the kind of its value  *)
(* and whether the shell owns it; meta gives each field name its tag.  A   *)
(* Core is a record: properties maps a field name to the kind of Property  *)
(* materialized for it ("none": no Property), backref says that the shell  *)
(* carries its reference to the Core, results lists what each call of      *)
(* makeProp by setup returned, pc is the outcome of the call of prob.      *)
(***************************************************************************)
MaxFields == 2
MaxSets == 1

Names == {"a", "b", "p"}
Kinds == {"null", "undefined", "number", "function", "array", "object"}
SetKinds == {"number", "array"}
Tags == {"none", "noprop", "list", "other"}

\* P.Configuration.keypropList
KeypropList == {"p"}

Field(name, kind, own) == [name |-> name, kind |-> kind, own |-> own]

Fields == [name : Names, kind : Kinds, own : BOOLEAN]

Distinct(shell) ==
  \A i, j \in 1..Len(shell) : i # j => shell[i].name # shell[j].name

\* The shell objects: up to MaxFields fields with distinct names.
Shells ==
  {shell \in UNION {[1..k -> Fields] : k \in 1..MaxFields} : Distinct(shell)}

\* P.U.isFunction, P.U.isArrayObject, P.U.isObject on the kind of a value:
\* typeof gives 'object' for null, for arrays and for plain objects.
IsFunction(kind) == kind = "function"
IsArrayObject(kind) == kind = "array"
IsObject(kind) == kind \in {"null", "array", "object"}

\* object_core.js:93  the tag is 'noprop', or has indexOf and contains it
NoReactivity(meta) == meta = "noprop" \/ meta = "list"

HasField(shell, name) == \E i \in 1..Len(shell) : shell[i].name = name

FieldOf(shell, name) ==
  shell[CHOOSE i \in 1..Len(shell) : shell[i].name = name]

\* A chain that tests for an object before it tests for an array.
ClassifyObjectFirst(own, kind) ==
  IF own /\ (kind = "null" \/ kind = "undefined") THEN "NP"
  ELSE IF own /\ ~IsFunction(kind) /\ ~IsArrayObject(kind) /\ ~IsObject(kind) THEN "P"
  ELSE IF own /\ IsFunction(kind) THEN "FP"
  ELSE IF own /\ IsObject(kind) THEN "OP"
  ELSE IF own /\ IsArrayObject(kind) THEN "AP"
  ELSE "none"

\* object_core.js:102-112  the chain that chooses the Property constructor
Classify(own, kind) ==
  IF own /\ (kind = "null" \/ kind = "undefined") THEN "NP"
  ELSE IF own /\ ~IsFunction(kind) /\ ~IsArrayObject(kind) /\ ~IsObject(kind) THEN "P"
  ELSE IF own /\ IsFunction(kind) THEN "FP"
  ELSE IF own /\ IsArrayObject(kind) THEN "AP"
  ELSE IF own /\ IsObject(kind) THEN "OP"
  ELSE "none"

\* object_core.js:84-127  makeProp(property, listeners, meta) without
\* listeners and without a registry: the Core after the call, what the call
\* returned and whether it threw.  A Property that is constructed enters
\* the Core's properties.
MakeProp(c, property, meta) ==
  IF NoReactivity(meta)
    THEN [c |-> c, result |-> "none", thrown |-> FALSE]
  ELSE IF c.keyprops /\ property \in KeypropList
    THEN [c |-> c, result |-> "none", thrown |-> TRUE]
  ELSE LET f == FieldOf(c.shell, property)
           result == Classify(f.own, f.kind)
       IN  [c |-> IF result = "none" THEN c
                  ELSE [c EXCEPT !.properties[property] = result],
            result |-> result, thrown |-> FALSE]

\* object_core.js:76-83  setup(): the loop from field i on; an exception of
\* makeProp leaves the loop.
RECURSIVE SetupFrom(_, _)
SetupFrom(c, i) ==
  IF i > Len(c.shell) THEN [c EXCEPT !.pc = "done"]
  ELSE LET name == c.shell[i].name
           r == MakeProp(c, name, c.meta[name])
       IN  IF r.thrown THEN [r.c EXCEPT !.pc = "failed"]
           ELSE SetupFrom(
                  [r.c EXCEPT !.results =
                     Append(@, [name |-> name, result |-> r.result])],
                  i + 1)

Setup(c) == SetupFrom(c, 1)

\* new P.OC(object, meta)
NewObjectCore(object, meta, keyprops) ==
  [pc |-> "new", shell |-> object, meta |-> meta, keyprops |-> keyprops,
   backref |-> FALSE, properties |-> [n \in Names |-> "none"],
   results |-> <<>>, nset |-> 0]

\* P.U.defValProp(object, '__pro__', false, false, false, core)
DefValProp(c) == [c EXCEPT !.backref = TRUE]

\* core.prob(): runs setup; what setup throws leaves prob.
CoreProb(c) == Setup(c)

\* prob.js:26-44  ProAct.prob(object, meta) for a plain object
Prob(object, meta, keyprops) ==
  CoreProb(DefValProp(NewObjectCore(object, meta, keyprops)))

\* object[property] = value
Assign(shell, property, kind) ==
  IF HasField(shell, property)
    THEN [i \in 1..Len(shell) |->
            IF shell[i].name = property
              THEN Field(property, kind, TRUE) ELSE shell[i]]
    ELSE Append(shell, Field(property, kind, TRUE))

\* object_core.js:128-137  set(property, value)
Set(c, property, kind) ==
  LET c1 == [c EXCEPT !.shell = Assign(c.shell, property, kind),
                      !.nset = c.nset + 1]
  IN  IF c.properties[property] # "none" THEN c1
      ELSE MakeProp(c1, property, "none").c

(***************************************************************************)
(* SpecCore: one call of ProAct.prob on a plain object, then calls of set. *)
(***************************************************************************)
ProbAct ==
  /\ core.pc = "none"
  /\ \E object \in Shells, meta \in [Names -> Tags], keyprops \in BOOLEAN :
       /\ \A n \in Names : ~HasField(object, n) => meta[n] = "none"
       /\ core' = Prob(object, meta, keyprops)
  /\ UNCHANGED <<obs, made, flow, log, upd, trigs, ops>>

SetAct ==
  /\ core.pc = "done"
  /\ core.nset < MaxSets
  /\ \E property \in Names, kind \in SetKinds :
       core' = Set(core, property, kind)
  /\ UNCHANGED <<obs, made, flow, log, upd, trigs, ops>>

NextCore == ProbAct \/ SetAct

SpecCore == InitWith({TRUE}) /\ [][NextCore]_vars

(***************************************************************************)
(* SpecTwice: Stream 2 calls into(1) up to MaxList times; Stream 1 may     *)
(* carry a filtering stage; a consumer listens to 2 and another to 1.      *)
(* ops.s counts the calls of 2.into(1).                                    *)
(***************************************************************************)
TwiceSource == 1
TwiceNode == 2

TNew == NewStream /\ Fresh \in {TwiceSource, TwiceNode}

TInto ==
  /\ Wiring
  /\ IntoStep(TwiceNode, TwiceSource)
  /\ ops' = OpRec("into", TwiceNode, ops.s + 1)

TOn == \E n \in {TwiceSource, TwiceNode} :
  /\ Wiring
  /\ Count(obs[n].listeners, CB("c", n)) = 0
  /\ Len(obs[n].listeners) + 1 < MaxList \/ n = TwiceNode
  /\ OnStep(n, CB("c", n))
  /\ UNCHANGED ops

TFiltering ==
  /\ Idle
  /\ Wiring
  /\ TwiceSource \in made
  /\ obs[TwiceSource].transforms = <<>>
  /\ obs' = Filtering(obs, TwiceSource, "pos")
  /\ UNCHANGED <<made, flow, log, upd, trigs, ops, core>>

TTrigger == \E v \in PipeVals :
  /\ Len(trigs) < MaxTriggers
  /\ TriggerStep(TwiceSource, v)

NextTwice == TNew \/ TInto \/ TOn \/ TFiltering \/ TTrigger \/ Invoke \/ Close

SpecTwice == InitWith({TRUE}) /\ [][NextTwice]_vars

(***************************************************************************)
(* SpecBranch: Stream 1 with the consumer ValConsumer; the noun forms map, *)
(* filter and accumulate are called on it (each makes a new Stream, the    *)
(* first of them listened to by ErrConsumer used as a value consumer) and  *)
(* the verb forms extend its own pipeline.  ops is the last call: its      *)
(* name, the Stream it returned (n) and the Stream it was called on (s).   *)
(***************************************************************************)
BranchRoot == 1
Derived == 2
NounForms == {"map", "filter", "accumulate"}
VerbForms == {"mapping", "filtering", "accumulation"}

BNew ==
  /\ Idle
  /\ made = {}
  /\ made' = {BranchRoot}
  /\ obs' = [obs EXCEPT ![BranchRoot] = NewObservable]
  /\ ops' = OpRec("new", BranchRoot, BranchRoot)
  /\ UNCHANGED <<flow, log, upd, trigs, core>>

\* A noun form called on the root: o2 is the heap after the call.
NounStep(op, o2) ==
  /\ Idle
  /\ Wiring
  /\ BranchRoot \in made
  /\ made # Streams
  /\ HasRoom(Fresh, BranchRoot)
  /\ obs' = o2
  /\ made' = made \cup {Fresh}
  /\ ops' = OpRec(op, Fresh, BranchRoot)
  /\ UNCHANGED <<flow, log, upd, trigs, core>>

BMap == NounStep("map", Map(obs, Fresh, BranchRoot, "inc"))

BFilter == NounStep("filter", Filter(obs, Fresh, BranchRoot, "pos"))

BAccumulate ==
  NounStep("accumulate", Accumulate(obs, Fresh, BranchRoot, 0, "add"))

\* A verb form called on the root: o2 is the heap after the call.
VerbStep(op, o2) ==
  /\ Idle
  /\ Wiring
  /\ BranchRoot \in made
  /\ Len(obs[BranchRoot].transforms) < MaxStages
  /\ obs' = o2
  /\ ops' = OpRec(op, BranchRoot, BranchRoot)
  /\ UNCHANGED <<made, flow, log, upd, trigs, core>>

BMapping == VerbStep("mapping", Mapping(obs, BranchRoot, "double"))

BFiltering == VerbStep("filtering", Filtering(obs, BranchRoot, "even"))

BAccumulation ==
  VerbStep("accumulation", Accumulation(obs, BranchRoot, 1, "mul"))

BOn == \E n \in {BranchRoot, Derived} :
  /\ Wiring
  /\ obs[n].listeners = <<>>
  /\ OnStep(n, IF n = BranchRoot THEN ValConsumer ELSE ErrConsumer)
  /\ ops' = OpRec("on", n, n)

BTrigger == \E v \in PipeVals :
  /\ Len(trigs) < MaxTriggers
  /\ TriggerStep(BranchRoot, v)

NextBranch ==
  \/ BNew \/ BMap \/ BFilter \/ BAccumulate
  \/ BMapping \/ BFiltering \/ BAccumulation
  \/ BOn \/ BTrigger \/ Invoke \/ Close

SpecBranch == InitWith({TRUE}) /\ [][NextBranch]_vars

(***************************************************************************)
(* SpecRound: Stream 1 with the consumers ValConsumer and ErrConsumer (both *)
(* as value listeners) and Stream 2 wired into it.  While a batch drains,  *)
(* ValConsumer may call off or on for ErrConsumer on Stream 1, offSource   *)
(* for Stream 2, or trigger.  ops is the last on/off of ErrConsumer on     *)
(* Stream 1, with the number of rounds made before it (s).                 *)
(***************************************************************************)
RoundStream == 1
RoundNode == 2

UNew == NewStream /\ Fresh \in {RoundStream, RoundNode}

UInto ==
  /\ Wiring
  /\ obs[RoundNode].sources = <<>>
  /\ IntoStep(RoundNode, RoundStream)
  /\ UNCHANGED ops

UOn == \E n \in {RoundStream, RoundNode}, cb \in {ValConsumer, ErrConsumer} :
  /\ Wiring
  /\ Count(obs[n].listeners, cb) = 0
  /\ n = RoundNode => cb = ValConsumer
  /\ OnStep(n, cb)
  /\ ops' = IF cb = ErrConsumer THEN OpRec("on", n, Len(upd)) ELSE ops

UTrigger ==
  /\ Len(trigs) < MaxTriggers
  /\ TriggerStep(RoundStream, TrigSeq[Len(trigs) + 1])

\* The drain invokes ValConsumer, whose body makes the heap and scheduler
\* st2 out of the ones it was invoked in.
InvokeBody(st2) ==
  /\ IsRunning(flow)
  /\ Pending(flow) # <<>>
  /\ NextEntry.cb = ValConsumer
  /\ Becomes(st2)
  /\ log' = Append(log, LogRec(NextEntry))
  /\ UNCHANGED <<made, trigs, core>>

UInvokeOff ==
  /\ Count(obs[RoundStream].listeners, ErrConsumer) > 0
  /\ InvokeBody(OffInBatch([St EXCEPT !.flow = TakeNext(flow)],
                           RoundStream, ErrConsumer))
  /\ ops' = OpRec("off", RoundStream, Len(upd))

UInvokeOn ==
  /\ Count(obs[RoundStream].listeners, ErrConsumer) = 0
  /\ Len(obs[RoundStream].listeners) < MaxList
  /\ InvokeBody([St EXCEPT !.flow = TakeNext(flow),
                           !.obs = On(obs, RoundStream, ErrConsumer, FALSE)])
  /\ ops' = OpRec("on", RoundStream, Len(upd))

UInvokeOffSource ==
  /\ obs[RoundNode].sources # <<>>
  /\ InvokeBody([St EXCEPT !.flow = TakeNext(flow),
                           !.obs = OffSource(obs, RoundNode, RoundStream)])
  /\ UNCHANGED ops

NextRound ==
  \/ UNew \/ UInto \/ UOn \/ UTrigger
  \/ Invoke \/ InvokeTrigger \/ UInvokeOff \/ UInvokeOn \/ UInvokeOffSource
  \/ Close

SpecRound == InitWith({TRUE}) /\ [][NextRound]_vars

(***************************************************************************)
(* Edge symmetry and edge pairing (SpecGraph).                             *)
(***************************************************************************)
\* The heap after n.into(s) immediately followed by n.offSource(s).
RoundTrip(o, n, s) == OffSource(Into(o, n, <<s>>), n, s)

NoEdge(o, n, s) ==
  /\ Count(o[n].sources, s) = 0
  /\ Count(o[s].listeners, LCb(n)) = 0
  /\ Count(o[s].errListeners, ECb(n)) = 0

Restored(o, n, s) ==
  LET o2 == RoundTrip(o, n, s)
  IN  /\ o2[s].listeners = o[s].listeners
      /\ o2[s].errListeners = o[s].errListeners
      /\ o2[n].sources = o[n].sources

\* C9 as stated: from every state, for all Streams N and S, N.into(S)
\* followed immediately by N.offSource(S) restores S.listeners,
\* S.errListeners and N.sources and leaves no edge between N and S.
EdgeSymmetryAlways ==
  \A n \in made, s \in made :
    Restored(obs, n, s) /\ NoEdge(RoundTrip(obs, n, s), n, s)

\* C9 amended: when N has no edge to S (S is not in N.sources and N's
\* forwarding callbacks are not in S's lists), N.into(S) followed immediately
\* by N.offSource(S) restores S.listeners, S.errListeners and N.sources and
\* leaves no edge between N and S; in every case it restores how many times S
\* occurs in N.sources and N's callbacks occur in S's lists.
EdgeSymmetry ==
  \A n \in made, s \in made :
    LET o2 == RoundTrip(obs, n, s)
    IN  /\ NoEdge(obs, n, s) => Restored(obs, n, s) /\ NoEdge(o2, n, s)
        /\ Count(o2[n].sources, s) = Count(obs[n].sources, s)
        /\ Count(o2[s].listeners, LCb(n)) = Count(obs[s].listeners, LCb(n))
        /\ Count(o2[s].errListeners, ECb(n)) = Count(obs[s].errListeners, ECb(n))

\* A round trip has just run on a Stream that has other listeners, and no
\* edge is left.
EdgeSymmetryWitness ==
  /\ ops.op = "intoOff"
  /\ NoEdge(obs, ops.n, ops.s)
  /\ obs[ops.s].listeners # <<>>
  /\ obs[ops.n].listener = LCb(ops.n)

\* C10 as stated: for every pair (N, S) the occurrences of S in N.sources,
\* of N's listener in S.listeners and of N's errListener in S.errListeners
\* are equally many.
EdgePairing ==
  \A n \in made, s \in made :
    /\ Count(obs[n].sources, s) = Count(obs[s].listeners, LCb(n))
    /\ Count(obs[n].sources, s) = Count(obs[s].errListeners, ECb(n))

(***************************************************************************)
(* Histories of one batch.                                                 *)
(***************************************************************************)
BatchDone(b) == b < flow.batch \/ (b = flow.batch /\ ~IsRunning(flow))

Batches == 1..flow.batch

BatchLog(b) == SelectSeq(log, LAMBDA e : e.b = b)

BatchUpd(b) == SelectSeq(upd, LAMBDA u : u.b = b)

CountLog(cb, b) == Len(SelectSeq(log, LAMBDA e : e.b = b /\ e.cb = cb))

\* The callbacks a round defers: its list, then its parent.
RoundTargets(u) == IF Invocable(u.par) THEN Append(u.list, u.par) ELSE u.list

\* How many times the rounds us defer cb.
RECURSIVE Deferrals(_, _)
Deferrals(us, cb) ==
  IF us = <<>> THEN 0
  ELSE Count(RoundTargets(Head(us)), cb) + Deferrals(Tail(us), cb)

\* cb is deferred in batch b by the dedup discipline only: it is a
\* property-tagged listener, or only rounds of non-Stream Observables list it.
DedupOnly(cb, b) ==
  HasProperty(cb) \/
    \A i \in 1..Len(upd) :
      (upd[i].b = b /\ Count(RoundTargets(upd[i]), cb) > 0) => ~IsStream(upd[i].n)

AllCallbacks ==
  Consumers \cup {PropListener} \cup {LCb(n) : n \in Streams}
    \cup {ECb(n) : n \in Streams}

IsPrefix(s, t) == Len(s) <= Len(t) /\ s = SubSeq(t, 1, Len(s))

\* C1: in every batch, a callback identity deferred by the dedup discipline
\* (Observable.defer, also when reached through Stream.defer for a
\* property-tagged listener), however many times, is invoked at most once
\* while the batch drains and exactly once when it has drained.
DedupOnce ==
  \A b \in Batches, cb \in AllCallbacks :
    (DedupOnly(cb, b) /\ Deferrals(BatchUpd(b), cb) >= 1) =>
      /\ CountLog(cb, b) <= 1
      /\ BatchDone(b) => CountLog(cb, b) = 1

\* A drained batch in which a property-tagged listener was deferred by the
\* rounds of two Streams, reached from one trigger, and invoked once.
DedupOnceWitness ==
  /\ flow.batch = 1 /\ BatchDone(1)
  /\ \E i, j \in 1..Len(upd) :
       /\ IsStream(upd[i].n) /\ IsStream(upd[j].n) /\ upd[i].n # upd[j].n
       /\ Count(upd[i].list, PropListener) > 0
       /\ Count(upd[j].list, PropListener) > 0
  /\ CountLog(PropListener, 1) = 1

\* The values delivered to callback cb and the values Stream n emitted in b.
Delivered(cb, b) ==
  LET es == SelectSeq(log, LAMBDA e : e.b = b /\ e.cb = cb)
  IN  [i \in 1..Len(es) |-> es[i].arg]

Emitted(n, b) ==
  LET us == SelectSeq(upd, LAMBDA u : u.b = b /\ u.n = n /\ ~u.err)
  IN  [i \in 1..Len(us) |-> us[i].ev]

\* In batch b the plain callback cb is registered once on Stream n and
\* nowhere else.
PlainOnceOn(cb, n, b) ==
  /\ ~HasProperty(cb)
  /\ Count(obs[n].listeners, cb) = 1
  /\ \A i \in 1..Len(upd) :
       upd[i].b = b =>
         Count(RoundTargets(upd[i]), cb) =
           IF upd[i].n = n /\ ~upd[i].err THEN 1 ELSE 0

\* The calls of trigger on Stream n that the history records for batch b.
TrigCount(n, b) ==
  Cardinality({i \in 1..Len(trigs) : trigs[i].n = n /\ trigs[i].b = b})

\* C2: for a Stream S and a plain listener L registered once on S, in every
\* batch the values L is invoked with are a prefix of the values S emitted,
\* in order; when the batch has drained they are the same sequence, with one
\* invocation per update of S, and S was updated once per call of trigger
\* (direct, or forwarded by S's listener).
OncePerUpdate ==
  \A b \in Batches, n \in Streams, cb \in Consumers :
    PlainOnceOn(cb, n, b) =>
      /\ IsPrefix(Delivered(cb, b), Emitted(n, b))
      /\ BatchDone(b) =>
           /\ Delivered(cb, b) = Emitted(n, b)
           /\ Len(Emitted(n, b)) = CountLog(LCb(n), b) + TrigCount(n, b)

\* A plain listener at the join of two paths was invoked twice in one batch.
OncePerUpdateWitness ==
  /\ flow.batch = 1 /\ BatchDone(1)
  /\ \E cb \in Consumers :
       /\ PlainOnceOn(cb, 3, 1)
       /\ Len(Delivered(cb, 1)) = 2
       /\ TrigCount(3, 1) = 0

QueueCbs(f) == [i \in 1..Len(f.queue) |-> f.queue[i].cb]

\* C3: a batch is opened only by a call made while no batch is open (the
\* scheduler never sees run() while running, and the batches are as many as
\* the top-level calls that opened one); while a batch is open every step
\* stays in that batch, only appends to its queue, and tags its rounds with
\* that batch; the queue is empty whenever no batch is open.
NoNestedBatch ==
  /\ [](/\ ~flow.nested
        /\ flow.batch =
             Cardinality({i \in 1..Len(trigs) : trigs[i].top /\ trigs[i].b # 0})
        /\ \A i \in 1..Len(trigs) : ~trigs[i].top => trigs[i].b # 0
        /\ ~IsRunning(flow) => flow.queue = <<>>)
  /\ [][(IsRunning(flow) /\ IsRunning(flow')) =>
          /\ flow'.batch = flow.batch
          /\ IsPrefix(QueueCbs(flow), QueueCbs(flow'))
          /\ IsPrefix(upd, upd')
          /\ \A i \in (Len(upd) + 1)..Len(upd') : upd'[i].b = flow.batch]_vars

\* A listener called trigger while the batch was draining and the round of
\* that update was queued in the open batch.
NoNestedBatchWitness ==
  /\ IsRunning(flow)
  /\ \E i \in 1..Len(trigs) : ~trigs[i].top /\ trigs[i].b = flow.batch
  /\ Len(BatchUpd(flow.batch)) >= 2
  /\ Pending(flow) # <<>>

\* Every callback listed by a round of batch b was invoked in b, the plain
\* listeners of Streams once per listing.
AllInvoked(b) ==
  \A cb \in AllCallbacks :
    LET d == Deferrals(BatchUpd(b), cb)
    IN  /\ d >= 1 => CountLog(cb, b) >= 1
        /\ (~HasProperty(cb) /\ \A i \in 1..Len(upd) : IsStream(upd[i].n))
             => CountLog(cb, b) = d

\* The Streams that S reaches over the edges of the graph, S included.
RECURSIVE Reach(_, _)
Reach(S, k) ==
  IF k = 0 THEN S
  ELSE Reach(S \cup {m \in Streams : \E s \in S : Count(obs[m].sources, s) > 0},
             k - 1)

\* The trigger that opened batch b reached every listener downstream of it.
AllReached(b) ==
  \A i \in 1..Len(trigs) :
    trigs[i].b = b =>
      \A m \in Reach({trigs[i].n}, Cardinality(Streams)) :
        \A j \in 1..Len(obs[m].listeners) : CountLog(obs[m].listeners[j], b) >= 1

Drained ==
  /\ ~IsRunning(flow)
  /\ Pending(flow) = <<>>
  /\ \A b \in Batches : AllInvoked(b) /\ AllReached(b)

RECURSIVE Enqueued(_)
Enqueued(us) ==
  IF us = <<>> THEN <<>>
  ELSE LET u == Head(us)
           ts == RoundTargets(u)
       IN  [i \in 1..Len(ts) |-> Entry(ts[i], u.ev)] \o Enqueued(Tail(us))

Plain(b) ==
  \A i \in 1..Len(upd) :
    upd[i].b = b =>
      /\ IsStream(upd[i].n)
      /\ Count(RoundTargets(upd[i]), PropListener) = 0

Invoked(b) ==
  LET es == BatchLog(b)
  IN  [i \in 1..Len(es) |-> Entry(es[i].cb, es[i].arg)]

\* C5: in a batch of Streams with plain listeners the callbacks are invoked
\* in enqueue order: the invocations are, in order, the listeners of the
\* first round in registration order, then those of the second round, and so
\* on, each with the value of its round (a prefix while the batch drains).
EnqueueOrder ==
  \A b \in Batches :
    Plain(b) =>
      /\ IsPrefix(Invoked(b), Enqueued(BatchUpd(b)))
      /\ BatchDone(b) => Invoked(b) = Enqueued(BatchUpd(b))

\* Stream 1 has listeners [2's listener, L1], Stream 2 has listener L2; one
\* trigger on 1 ran 2's listener, then L1, then L2.
EnqueueOrderWitness ==
  /\ flow.batch = 1 /\ BatchDone(1)
  /\ \E c1 \in Consumers, c2 \in Consumers :
       /\ c1 # c2
       /\ obs[1].listeners = <<LCb(2), c1>>
       /\ obs[2].listeners = <<c2>>
       /\ Invoked(1) = <<Entry(LCb(2), Val(5)), Entry(c1, Val(5)), Entry(c2, Val(5))>>


(***************************************************************************)
(* Pipelines (SpecPipe, SpecMerge).  RefRun is the meaning of a pipeline:  *)
(* the stages 1..k applied left to right to x, ok false once a filter has  *)
(* rejected the value; an accumulation combines its cell with its input.   *)
(***************************************************************************)
RECURSIVE RefRun(_, _, _)
RefRun(ts, k, x) ==
  IF k = 0 THEN [ok |-> TRUE, x |-> x]
  ELSE LET p == RefRun(ts, k - 1, x)
       IN  IF ~p.ok THEN p
           ELSE CASE ts[k].op = "map" -> [ok |-> TRUE, x |-> MapF(ts[k].f, p.x)]
                  [] ts[k].op = "filter" -> [ok |-> PredF(ts[k].f, p.x), x |-> p.x]
                  [] OTHER -> [ok |-> TRUE, x |-> CombF(ts[k].f, ts[k].val, p.x)]

OnlyOp(ts, op) == \A k \in 1..Len(ts) : ts[k].op = op

\* The values the consumer of the pipeline Stream has received so far.
Received ==
  LET es == SelectSeq(log, LAMBDA e : e.cb = PipeConsumer)
  IN  [i \in 1..Len(es) |-> es[i].arg]

\* C6: when a triggered value reaches a filtering stage whose predicate
\* rejects it, no later stage is applied (the stages after it keep their
\* state) and no batch notifies a listener; on a pipeline of filtering stages
\* a value every predicate accepts is delivered unchanged; deliveries follow
\* the order of the triggers.
FilterSuppression ==
  /\ \A i \in 1..Len(trigs) :
       LET t == trigs[i]
       IN  /\ \A k \in 1..Len(t.pre) :
                LET p == RefRun(t.pre, k - 1, t.v)
                IN  (t.pre[k].op = "filter" /\ p.ok /\ ~PredF(t.pre[k].f, p.x)) =>
                      /\ t.b = 0
                      /\ \A j \in (k + 1)..Len(t.pre) : t.post[j] = t.pre[j]
           /\ (OnlyOp(t.pre, "filter") /\ RefRun(t.pre, Len(t.pre), t.v).ok) =>
                /\ t.b # 0
                /\ BatchDone(t.b) => Delivered(PipeConsumer, t.b) = <<Val(t.v)>>
  /\ \A i, j \in 1..Len(trigs) :
       (i < j /\ trigs[i].b # 0 /\ trigs[j].b # 0) => trigs[i].b < trigs[j].b

\* Triggers [3, -1, 2] on filtering(x > 0) followed by an accumulation: -1 was
\* suppressed and left the accumulation at 3; 3 and 5 were delivered.
FilterSuppressionWitness ==
  /\ Idle
  /\ Len(trigs) = 3
  /\ <<trigs[1].v, trigs[2].v, trigs[3].v>> = <<3, -1, 2>>
  /\ trigs[2].pre = <<Stage("filter", "pos", 0), Stage("acc", "add", 3)>>
  /\ trigs[2].post = trigs[2].pre
  /\ Received = <<Val(3), Val(5)>>

RECURSIVE SumV(_, _)
SumV(ts, i) == IF i = 0 THEN 0 ELSE ts[i].v + SumV(ts, i - 1)

\* C7: the cell of an accumulation stage persists from one trigger to the
\* next; each trigger whose value x reaches the stage sets the cell to
\* combine(cell, x), whatever the other stages hold; a pipeline of
\* accumulations delivers the value its last stage returns; and with the one
\* stage accumulation(0, +) the deliveries for v1..vn are the running sums.
AccumulationFolds ==
  /\ \A i \in 1..Len(trigs) :
       LET t == trigs[i]
       IN  /\ IsPrefix(t.post,
                       IF i < Len(trigs) THEN trigs[i + 1].pre
                       ELSE obs[t.n].transforms)
           /\ \A k \in 1..Len(t.pre) :
                LET p == RefRun(t.pre, k - 1, t.v)
                IN  t.pre[k].op = "acc" =>
                      t.post[k].val =
                        IF p.ok THEN CombF(t.pre[k].f, t.pre[k].val, p.x)
                        ELSE t.pre[k].val
           /\ OnlyOp(t.pre, "acc") =>
                /\ t.b # 0
                /\ BatchDone(t.b) =>
                     Delivered(PipeConsumer, t.b) =
                       <<Val(RefRun(t.pre, Len(t.pre), t.v).x)>>
  /\ (/\ Idle
      /\ \A i \in 1..Len(trigs) :
           Len(trigs[i].pre) = 1 /\ trigs[i].pre[1].op = "acc"
      /\ trigs # <<>> => trigs[1].pre[1].val = 0) =>
       Received = [i \in 1..Len(trigs) |-> Val(SumV(trigs, i))]

\* Triggers [1, 2, 3] on two accumulation(0, +) stages: the first holds 6
\* (its folds were 1, 3, 6), the second its own total of those, 10.
AccumulationFoldsWitness ==
  /\ Idle
  /\ Len(trigs) = 3
  /\ <<trigs[1].v, trigs[2].v, trigs[3].v>> = <<1, 2, 3>>
  /\ trigs[1].pre = <<Stage("acc", "add", 0), Stage("acc", "add", 0)>>
  /\ obs[PipeStream].transforms = <<Stage("acc", "add", 6), Stage("acc", "add", 10)>>
  /\ Received = <<Val(1), Val(4), Val(10)>>

\* The values Streams 1 and 2 emitted in batch b, in the order they did.
UpstreamEmitted(b) ==
  LET us == SelectSeq(upd, LAMBDA u : u.b = b /\ u.n \in {1, 2} /\ ~u.err)
  IN  [i \in 1..Len(us) |-> us[i].ev]

\* C8: with M = 1.merge(2) and a listener on M, in every batch not triggered
\* on M itself M emits the values 1 and 2 emitted, each once, in the order
\* they were emitted, and M's listener receives them; what M emits for a
\* trigger of v on 1 or 2 is the plain value of that Stream's pipeline for v
\* (no envelope, the pipeline applied once).
MergeOrder ==
  (Merged \in made /\ Count(obs[Merged].listeners, CB("c", 1)) = 1) =>
    /\ \A b \in Batches :
         TrigCount(Merged, b) = 0 =>
           /\ IsPrefix(Emitted(Merged, b), UpstreamEmitted(b))
           /\ BatchDone(b) =>
                /\ Emitted(Merged, b) = UpstreamEmitted(b)
                /\ Delivered(CB("c", 1), b) = UpstreamEmitted(b)
    /\ \A i \in 1..Len(trigs) :
         LET t == trigs[i]
         IN  (t.n # Merged /\ BatchDone(t.b)) =>
               /\ t.b # 0
               /\ Delivered(CB("c", 1), t.b) =
                    <<Val(RefRun(t.pre, Len(t.pre), t.v).x)>>

\* 1 was triggered with 5, then 2 with 7: M's listener received 5, then 7.
MergeOrderWitness ==
  /\ Idle
  /\ Len(trigs) = 2
  /\ trigs[1].n = 1 /\ trigs[1].v = 5
  /\ trigs[2].n = 2 /\ trigs[2].v = 7
  /\ Delivered(CB("c", 1), 1) \o Delivered(CB("c", 1), 2) = <<Val(5), Val(7)>>

(***************************************************************************)
(* Errors of the pipeline and the two tracks (SpecErr).                    *)
(***************************************************************************)
\* The pipeline ts throws on x: some mapping stage throws on what the stages
\* before it make of x.
PipelineThrows(ts, x) ==
  \E k \in 1..Len(ts) :
    LET p == RefRun(ts, k - 1, x)
    IN  ts[k].op = "map" /\ p.ok /\ Throws(ts[k].f, p.x)

\* The rounds of Stream n in batch b on the error track (err) or the value
\* track (~err).
Rounds(n, b, err) ==
  Len(SelectSeq(upd, LAMBDA u : u.n = n /\ u.b = b /\ u.err = err))

\* The calls of trigger on n in batch b, from outside (ExtVal) or forwarded
\* by n's listener (FwdVal), whose pipeline run throws (thr) or does not.
ExtVal(n, b, thr) ==
  Cardinality({i \in 1..Len(trigs) :
    /\ ~trigs[i].err /\ trigs[i].n = n /\ trigs[i].b = b
    /\ PipelineThrows(trigs[i].pre, trigs[i].v) = thr})

FwdVal(n, b, thr) ==
  Len(SelectSeq(log, LAMBDA e :
    /\ e.b = b /\ e.cb = LCb(n)
    /\ PipelineThrows(obs[n].transforms, e.arg.v) = thr))

\* The calls of triggerErr on n in batch b from outside.
ExtErr(n, b) ==
  Cardinality({i \in 1..Len(trigs) :
    trigs[i].err /\ trigs[i].n = n /\ trigs[i].b = b})

\* C11: for a Stream S that has somebody to notify, in every batch the
\* error rounds of S are one per call of trigger on S whose pipeline threw,
\* plus one per triggerErr on S (from outside or forwarded by S's
\* errListener), and its value rounds one per call of trigger that did not
\* throw: a throw notifies no value listener of S and gives no round to any
\* other Stream; the error round notifies S's own errListeners with the
\* error; a throwing trigger called from outside returns with that round
\* as the first of its batch; and when the batch has drained every callback
\* its rounds enqueued was invoked.
ErrorIsolation ==
  /\ \A b \in Batches, n \in Streams :
       ~NothingToNotify(obs, n) =>
         /\ Rounds(n, b, TRUE) =
              ExtVal(n, b, TRUE) + FwdVal(n, b, TRUE) + ExtErr(n, b)
                + CountLog(ECb(n), b)
         /\ Rounds(n, b, FALSE) = ExtVal(n, b, FALSE) + FwdVal(n, b, FALSE)
  /\ \A i \in 1..Len(upd) :
       upd[i].err => upd[i].list = obs[upd[i].n].errListeners
  /\ \A i \in 1..Len(trigs) :
       LET t == trigs[i]
       IN  (~t.err /\ t.b # 0 /\ PipelineThrows(t.pre, t.v)) =>
             LET u == BatchUpd(t.b)[1]
             IN  u.n = t.n /\ u.err /\ u.ev = ErrVal(t.v)
  /\ \A b \in Batches :
       BatchDone(b) =>
         \A cb \in AllCallbacks : CountLog(cb, b) = Deferrals(BatchUpd(b), cb)

\* trigger(7) on Stream 1, listened to by Stream 2 and then by a consumer:
\* 2's pipeline threw, 2's value listener was not invoked, the consumer of 1
\* queued behind 2's listener was, and so was 2's error consumer.
ErrorIsolationWitness ==
  /\ flow.batch = 1 /\ BatchDone(1)
  /\ Len(trigs) = 1 /\ trigs[1].n = 1 /\ trigs[1].v = 7 /\ ~trigs[1].err
  /\ obs[1].listeners = <<LCb(2), ValConsumer>>
  /\ obs[2].listeners = <<ValConsumer>>
  /\ obs[2].errListeners = <<ErrConsumer>>
  /\ Invoked(1) = <<Entry(LCb(2), Val(7)), Entry(ValConsumer, Val(7)),
                    Entry(ErrConsumer, ErrVal(7))>>

(***************************************************************************)
(* The fast path of update and the parent of a round (SpecParent).         *)
(***************************************************************************)
\* Node n has nobody to notify: no listener, no error listener, no parent.
Quiet(o, n) ==
  o[n].listeners = <<>> /\ o[n].errListeners = <<>> /\ o[n].parent = NullCB

\* This step is a call of trigger or triggerErr on n from outside.
CalledOutside(n) ==
  Len(trigs') = Len(trigs) + 1 /\ trigs'[Len(trigs')].n = n

\* This step is the drain invoking n's listener or errListener.
CalledByDrain(n) ==
  /\ Len(log') = Len(log) + 1
  /\ log'[Len(log')].cb \in {LCb(n), ECb(n)}

\* C12 as stated: a call of trigger or triggerErr on a Stream with nobody to
\* notify constructs no Event, enqueues nothing, opens no batch and leaves
\* the scheduler and the whole node, pipeline included, unchanged.
FastPathNoOpAlways ==
  [][\A n \in Streams :
       (Quiet(obs, n) /\ CalledOutside(n)) =>
         flow' = flow /\ upd' = upd /\ obs' = obs]_vars

\* C12 amended: update on an Observable with nobody to notify returns the
\* heap, the scheduler and the rounds as they are; a call of trigger or
\* triggerErr on such a Stream adds no round, enqueues nothing and opens
\* no batch (the scheduler is unchanged, or has only taken the entry being
\* invoked), and changes nothing of the heap but the cells of the node's own
\* pipeline, which trigger runs before update; triggerErr changes nothing.
FastPathNoOp ==
  /\ [](\A n \in Nodes, v \in TrigVals :
          Quiet(obs, n) =>
            /\ Update(St, n, Val(v), FALSE) = St
            /\ Update(St, n, ErrVal(v), TRUE) = St)
  /\ [][\A n \in Streams :
          /\ (Quiet(obs, n) /\ CalledOutside(n)) =>
                /\ flow' = flow /\ upd' = upd /\ log' = log
                /\ obs' = [obs EXCEPT ![n].transforms = trigs'[Len(trigs')].post]
                /\ trigs'[Len(trigs')].err => obs' = obs
                /\ trigs'[Len(trigs')].b = 0
          /\ (Quiet(obs, n) /\ CalledByDrain(n)) =>
                /\ flow' = TakeNext(flow) /\ upd' = upd
                /\ obs' = [obs EXCEPT ![n].transforms = obs'[n].transforms]
                /\ log'[Len(log')].cb = ECb(n) => obs' = obs]_vars

\* trigger(5) was called on a Stream with an accumulation stage and nobody
\* to notify: no batch was opened, no round made, and the stage holds 5.
FastPathNoOpWitness ==
  /\ Len(trigs) = 1 /\ ~trigs[1].err /\ trigs[1].b = 0
  /\ Quiet(obs, trigs[1].n)
  /\ trigs[1].pre = <<Stage("acc", "add", 0)>>
  /\ obs[trigs[1].n].transforms = <<Stage("acc", "add", 5)>>
  /\ flow = NewFlow(TRUE) /\ upd = <<>> /\ log = <<>>

(***************************************************************************)
(* Reactify: reserved names and field classification (SpecCore).           *)
(***************************************************************************)
\* The call of prob has returned or thrown, and set was not called since.
AfterProb == core.pc \in {"done", "failed"} /\ core.nset = 0

HasReserved(shell) ==
  \E i \in 1..Len(shell) : shell[i].name \in KeypropList

\* C13 as stated: with keyword protection enabled and a field of the shell
\* named as a reserved word, prob fails, and leaves the shell without a
\* reference to a Core and without a Property for any of its fields.
ReservedAllOrNothing ==
  (AfterProb /\ core.keyprops /\ HasReserved(core.shell)) =>
    /\ core.pc = "failed"
    /\ ~core.backref
    /\ \A n \in Names : core.properties[n] = "none"

\* The Property kind the precedence order null, function, array, object,
\* scalar gives a value of this kind.
SpecKind(kind) ==
  IF kind \in {"null", "undefined"} THEN "NP"
  ELSE IF kind = "function" THEN "FP"
  ELSE IF kind = "array" THEN "AP"
  ELSE IF kind = "object" THEN "OP"
  ELSE "P"

\* C14: setup calls makeProp once per field, in order; for an own field
\* without the no-reactivity tag the call returns the one Property kind that
\* the precedence order (null, function, array, object, scalar) gives the
\* field's value, and the Core maps the field to it; a field whose tag is or
\* contains the no-reactivity marker gets no Property and is absent from the
\* Core's properties after setup, as is every name the shell does not have.
FieldClassification ==
  AfterProb =>
    /\ Len(core.results) <= Len(core.shell)
    /\ core.pc = "done" => Len(core.results) = Len(core.shell)
    /\ \A i \in 1..Len(core.results) :
         LET r == core.results[i]
             f == core.shell[i]
         IN  /\ r.name = f.name
             /\ core.properties[f.name] = r.result
             /\ IF NoReactivity(core.meta[f.name]) THEN r.result = "none"
                ELSE IF f.own THEN r.result = SpecKind(f.kind)
                ELSE r.result = "none"
    /\ \A n \in Names : ~HasField(core.shell, n) => core.properties[n] = "none"

\* prob({a: [], b: {}}, {b: [.., 'noprop']}) returned: a has an Array-valued
\* Property and b, an object tagged no-reactivity, has none.
FieldClassificationWitness ==
  /\ core.pc = "done" /\ core.nset = 0
  /\ core.shell = <<Field("a", "array", TRUE), Field("b", "object", TRUE)>>
  /\ core.meta["a"] = "other" /\ core.meta["b"] = "list"
  /\ core.properties["a"] = "AP" /\ core.properties["b"] = "none"

(***************************************************************************)
(* Repeated registration (SpecTwice).                                      *)
(***************************************************************************)
\* The calls of TwiceNode.into(TwiceSource) made so far.
IntoCalls == ops.s

\* C15: after k calls of N.into(S) there are k edges: S occurs k times in
\* N.sources and N's callbacks k times in S's lists; a trigger on S whose
\* value S's pipeline rejects opens no batch, and in the batch of a trigger
\* that passes, N's listener is invoked k times, N is updated k times, and a
\* plain listener of N fires k times with the value S emitted.
IntoNotDeduplicated ==
  /\ Count(obs[TwiceNode].sources, TwiceSource) = IntoCalls
  /\ Count(obs[TwiceSource].listeners, LCb(TwiceNode)) = IntoCalls
  /\ Count(obs[TwiceSource].errListeners, ECb(TwiceNode)) = IntoCalls
  /\ \A i \in 1..Len(trigs) :
       LET t == trigs[i]
           p == RefRun(t.pre, Len(t.pre), t.v)
       IN  /\ ~p.ok => t.b = 0
           /\ (p.ok /\ IntoCalls > 0) => t.b # 0
           /\ (p.ok /\ t.b # 0 /\ BatchDone(t.b)) =>
                /\ CountLog(LCb(TwiceNode), t.b) = IntoCalls
                /\ obs[TwiceNode].listeners = <<CB("c", TwiceNode)>> =>
                     /\ Rounds(TwiceNode, t.b, FALSE) = IntoCalls
                     /\ Delivered(CB("c", TwiceNode), t.b) =
                          [j \in 1..IntoCalls |-> Val(t.v)]

\* 2.into(1) was called twice and 1 triggered with 3: the consumer of 2
\* received 3 twice.
IntoNotDeduplicatedWitness ==
  /\ IntoCalls = 2
  /\ obs[TwiceNode].sources = <<TwiceSource, TwiceSource>>
  /\ flow.batch = 1 /\ BatchDone(1)
  /\ trigs[1].v = 3 /\ trigs[1].pre # <<>>
  /\ Delivered(CB("c", TwiceNode), 1) = <<Val(3), Val(3)>>

(***************************************************************************)
(* Noun forms and verb forms (SpecBranch).                                 *)
(***************************************************************************)
\* The stage each form is called with in SpecBranch.
FormStage(op) ==
  CASE op = "map" -> Stage("map", "inc", 0)
    [] op = "filter" -> Stage("filter", "pos", 0)
    [] op = "accumulate" -> Stage("acc", "add", 0)
    [] op = "mapping" -> Stage("map", "double", 0)
    [] op = "filtering" -> Stage("filter", "even", 0)
    [] OTHER -> Stage("acc", "mul", 1)

\* C16: a noun form (map, filter, accumulate) called on Stream S returns a
\* Stream that did not exist, distinct from S, whose only source is S, whose
\* pipeline is the one new stage and whose callbacks are appended to S's
\* lists; it leaves S.transforms and every other node as they were.  A verb
\* form (mapping, filtering, accumulation) returns S, appends the one stage
\* to S.transforms and changes nothing else.  A listener of S receives what
\* S's own pipeline makes of a triggered value, while the listener of the
\* derived Stream receives that value with the noun form's stage applied.
NounsBranchVerbsExtend ==
  /\ [][(made' # made /\ ops'.op \in NounForms) =>
          LET m == ops'.n
              n == ops'.s
          IN  /\ m \notin made /\ m # n /\ made' = made \cup {m}
              /\ obs'[n] = [obs[n] EXCEPT !.listeners = Append(@, LCb(m)),
                                          !.errListeners = Append(@, ECb(m))]
              /\ obs'[n].transforms = obs[n].transforms
              /\ obs'[m] = [NewObservable EXCEPT
                              !.sources = <<n>>,
                              !.listener = LCb(m), !.errListener = ECb(m),
                              !.transforms = <<FormStage(ops'.op)>>]
              /\ \A x \in Nodes \ {m, n} : obs'[x] = obs[x]]_vars
  /\ [][(ops'.op \in VerbForms /\ obs' # obs /\ trigs' = trigs /\ log' = log) =>
          /\ ops'.n = ops'.s
          /\ made' = made
          /\ obs' = [obs EXCEPT ![ops'.s].transforms =
                                  Append(@, FormStage(ops'.op))]]_vars
  /\ [](\A i \in 1..Len(trigs) :
          LET t == trigs[i]
              p == RefRun(t.pre, Len(t.pre), t.v)
          IN  (t.b # 0 /\ BatchDone(t.b)) =>
                /\ p.ok
                /\ Count(obs[BranchRoot].listeners, ValConsumer) = 1 =>
                     Delivered(ValConsumer, t.b) = <<Val(p.x)>>
                /\ (Derived \in made /\ obs[Derived].listeners = <<ErrConsumer>>) =>
                     LET stg == obs[Derived].transforms[1]
                         d == Delivered(ErrConsumer, t.b)
                     IN  CASE stg.op = "map" -> d = <<Val(p.x + 1)>>
                           [] stg.op = "filter" ->
                                d = IF p.x > 0 THEN <<Val(p.x)>> ELSE <<>>
                           [] OTHER -> Len(d) = 1 /\ (i = 1 => d = <<Val(p.x)>>))

\* S = 1 has the stage mapping(double) and the Stream 2 = S.map(inc); 3 was
\* triggered on S: S's listener received 6 and 2's listener 7.
NounsBranchVerbsExtendWitness ==
  /\ made = {BranchRoot, Derived}
  /\ obs[BranchRoot].transforms = <<Stage("map", "double", 0)>>
  /\ obs[Derived].transforms = <<Stage("map", "inc", 0)>>
  /\ obs[Derived].sources = <<BranchRoot>>
  /\ flow.batch = 1 /\ BatchDone(1)
  /\ trigs[1].v = 3
  /\ Delivered(ValConsumer, 1) = <<Val(6)>>
  /\ Delivered(ErrConsumer, 1) = <<Val(7)>>

(***************************************************************************)
(* Rounds are point-in-time (SpecRound).                                   *)
(***************************************************************************)
\* The rounds this step makes.
NewRounds == SubSeq(upd', Len(upd) + 1, Len(upd'))

\* C17: the list of a round is the node's target list when willUpdate runs;
\* in every batch the invocations are the entries of its rounds' lists, as
\* listed and in that order (all of them once the batch has drained): a
\* callback that edits the lists while the batch drains retracts and adds
\* no queued entry, so a listener removed after a round is still invoked
\* for it, the rounds made after the removal do not list it, and a listener
\* registered after a round is listed only by the rounds made after that.
PointInTimeRound ==
  /\ [](\A b \in Batches :
          /\ IsPrefix(Invoked(b), Enqueued(BatchUpd(b)))
          /\ \A cb \in AllCallbacks :
               /\ CountLog(cb, b) <= Deferrals(BatchUpd(b), cb)
               /\ BatchDone(b) => CountLog(cb, b) = Deferrals(BatchUpd(b), cb))
  /\ [](\A i \in 1..Len(upd) :
          (upd[i].n = ops.n /\ i > ops.s) =>
            /\ ops.op = "off" => Count(upd[i].list, ErrConsumer) = 0
            /\ ops.op = "on" => Count(upd[i].list, ErrConsumer) = 1)
  /\ [][(IsRunning(flow) /\ Len(log') = Len(log) + 1 /\ upd' = upd) =>
          flow' = TakeNext(flow)]_vars
  /\ [][\A i \in 1..Len(NewRounds) :
          NewRounds[i].list = TargetList(obs, NewRounds[i].n, NewRounds[i].err)]_vars

\* Stream 1 had the listeners [ValConsumer, ErrConsumer] and was triggered;
\* ValConsumer removed ErrConsumer, which was still invoked for that round
\* and then triggered Stream 1 again: the second round of the batch listed
\* and invoked ValConsumer alone.
PointInTimeRoundWitness ==
  /\ flow.batch = 1 /\ BatchDone(1)
  /\ ops = OpRec("off", RoundStream, 1)
  /\ Len(upd) = 2
  /\ upd[1].list = <<ValConsumer, ErrConsumer>>
  /\ upd[2].n = RoundStream /\ upd[2].list = <<ValConsumer>>
  /\ Invoked(1) = <<Entry(ValConsumer, Val(5)), Entry(ErrConsumer, Val(5)),
                    Entry(ValConsumer, Val(7))>>

(***************************************************************************)
(* The parent of a round (SpecParent).                                     *)
(***************************************************************************)
\* The callbacks this step appends to the queue of the scheduler.
NewCbs == SubSeq(QueueCbs(flow'), Len(flow.queue) + 1, Len(flow'.queue))

\* C18: every round records the parent its node has; a round of a Stream
\* with an invocable parent enqueues the parent once, after everything the
\* round's listeners enqueue (with no cascade the queue grows by the list
\* followed by the parent, also when the list is empty); a round of the
\* Property defers its parent by the dedup discipline, so the parent is
\* queued once, behind the round's listeners; a parent that cannot be
\* called is never queued.
ParentOnce ==
  [][Len(upd') > Len(upd) =>
      LET us == NewRounds
          q == NewCbs
          all == QueueCbs(flow')
          u == NewRounds[1]
      IN  /\ \A i \in 1..Len(us) :
               LET r == us[i]
               IN  /\ r.par = obs[r.n].parent
                   /\ (Invocable(r.par) /\ IsStream(r.n)) => Count(q, r.par) = 1
                   /\ (Invocable(r.par) /\ ~IsStream(r.n)) =>
                        /\ Count(all, r.par) = 1
                        /\ \A j \in 1..Len(r.list) :
                             IndexOf(all, r.list[j]) < IndexOf(all, r.par)
                   /\ ~Invocable(r.par) => Count(all, r.par) = 0
          /\ (IsStream(u.n) /\ Invocable(u.par)) => q[Len(q)] = u.par
          /\ (IsStream(u.n) /\ Len(us) = 1) =>
               q = IF Invocable(u.par) THEN Append(u.list, u.par) ELSE u.list]_vars

\* Stream 1 has two listeners and a parent; one trigger invoked the two
\* listeners and then the parent, once.
ParentOnceWitness ==
  /\ flow.batch = 1 /\ BatchDone(1)
  /\ Len(trigs) = 1 /\ trigs[1].n = 1
  /\ obs[1].parent = ParentCB(1)
  /\ Len(upd[1].list) = 2
  /\ Len(log) >= 3 /\ log[3].cb = ParentCB(1)
  /\ CountLog(ParentCB(1), 1) = 1

(***************************************************************************)
(* The two tracks (SpecErr).                                               *)
(***************************************************************************)
OnValueTrack(cb) == cb = ValConsumer \/ cb.k = "L"

OnErrorTrack(cb) == cb = ErrConsumer \/ cb.k = "E"

\* C19: the value list of a Stream holds value callbacks only (consumers
\* registered with on, listeners of Streams wired with into) and its error
\* list error callbacks only; a value round walks the value list with a
\* value and an error round the error list with an error, so a value
\* callback is only ever invoked with a value and an error callback with an
\* error.  A trigger from outside whose pipeline does not throw makes a
\* value round and no error round of its Stream, a triggerErr an error round
\* and no value round.  Along an edge, N's listener makes rounds of N only
\* (value rounds unless N's own pipeline throws), N's errListener error
\* rounds of N only.
DisjointTracks ==
  /\ [](\A n \in Streams :
          /\ \A j \in 1..Len(obs[n].listeners) : OnValueTrack(obs[n].listeners[j])
          /\ \A j \in 1..Len(obs[n].errListeners) :
               OnErrorTrack(obs[n].errListeners[j]))
  /\ [](\A i \in 1..Len(upd) :
          LET u == upd[i]
          IN  IF u.err
                THEN u.ev.t = "err" /\ u.list = obs[u.n].errListeners
                ELSE u.ev.t = "val" /\ u.list = obs[u.n].listeners)
  /\ [](\A i \in 1..Len(log) :
          /\ OnValueTrack(log[i].cb) => log[i].arg.t = "val"
          /\ OnErrorTrack(log[i].cb) => log[i].arg.t = "err")
  /\ [](\A i \in 1..Len(trigs) :
          LET t == trigs[i]
          IN  t.b # 0 =>
                /\ (~t.err /\ ~PipelineThrows(t.pre, t.v)) =>
                     /\ ~BatchUpd(t.b)[1].err /\ BatchUpd(t.b)[1].n = t.n
                     /\ Rounds(t.n, t.b, TRUE) = 0
                /\ t.err =>
                     /\ BatchUpd(t.b)[1].err /\ BatchUpd(t.b)[1].n = t.n
                     /\ Rounds(t.n, t.b, FALSE) = 0)
  /\ [][Len(log') = Len(log) + 1 =>
          LET e == log'[Len(log')]
          IN  \A i \in 1..Len(NewRounds) :
                LET r == NewRounds[i]
                IN  /\ e.cb.k \in {"L", "E"} /\ r.n = e.cb.n
                    /\ e.cb.k = "E" => r.err
                    /\ e.cb.k = "L" =>
                         (r.err <=> PipelineThrows(obs[r.n].transforms, e.arg.v))]_vars

\* Stream 2 is wired into Stream 1 and has a value consumer and an error
\* consumer.  trigger(5) on 1 reached 2's value consumer only, and then
\* triggerErr on 1 reached 2's error consumer only.
DisjointTracksWitness ==
  /\ flow.batch = 2 /\ BatchDone(2)
  /\ Len(trigs) = 2 /\ trigs[1].n = 1 /\ trigs[2].n = 1
  /\ ~trigs[1].err /\ trigs[2].err
  /\ obs[2].listeners = <<ValConsumer>> /\ obs[2].errListeners = <<ErrConsumer>>
  /\ Invoked(1) = <<Entry(LCb(2), Val(5)), Entry(ValConsumer, Val(5))>>
  /\ Invoked(2) = <<Entry(ECb(2), ErrVal(5)), Entry(ErrConsumer, ErrVal(5))>>

(***************************************************************************)
(* The frame of offSource (SpecGraph).                                     *)
(***************************************************************************)
\* C20 as stated: for all Streams N and S, N.offSource(S) removes from
\* S.listeners and S.errListeners nothing but N's own forwarding callbacks:
\* every other callback occurs in S's lists as many times after the call as
\* before it.
OffSourceFrame ==
  \A n \in made, s \in made :
    LET o2 == OffSource(obs, n, s)
    IN  \A cb \in AllCallbacks \ {LCb(n), ECb(n)} :
          /\ Count(o2[s].listeners, cb) = Count(obs[s].listeners, cb)
          /\ Count(o2[s].errListeners, cb) = Count(obs[s].errListeners, cb)

(***************************************************************************)
(* The parent on both tracks (SpecTrack).                                  *)
(***************************************************************************)
\* The entries this step appends to the queue of the scheduler.
NewEntries == SubSeq(flow'.queue, Len(flow.queue) + 1, Len(flow'.queue))

\* The arguments, in order, of the entries of q that invoke callback p.
ArgsOf(q, p) ==
  LET es == SelectSeq(q, LAMBDA e : e.cb = p)
  IN  [i \in 1..Len(es) |-> es[i].arg]

\* The events, in order, of the rounds of node n among us.
EventsOf(us, n) ==
  LET rs == SelectSeq(us, LAMBDA u : u.n = n)
  IN  [i \in 1..Len(rs) |-> rs[i].ev]

\* The round a call on Stream n makes: of trigger(v) with pipeline ts, or
\* of triggerErr(v) (err).
RoundOf(n, ts, v, err) ==
  LET thr == ~err /\ PipelineThrows(ts, v)
      onErr == err \/ thr
  IN  [n |-> n,
       ev |-> IF onErr THEN ErrVal(v) ELSE Val(RefRun(ts, Len(ts), v).x),
       b |-> flow'.batch, err |-> onErr,
       list |-> TargetList(obs, n, onErr), par |-> obs[n].parent]

\* C21: while a Stream has a parent, a call of trigger or triggerErr on it,
\* from outside or forwarded by its listener or errListener, always makes a
\* round, on the error track for triggerErr and for a trigger whose
\* pipeline throws, on the value track otherwise, also when both listener
\* lists are empty (a call from outside then opens a batch); every step
\* enqueues the invocable parent of a Stream once per round of that Stream,
\* with the round's value or error; and once a batch has drained the
\* parent was invoked with exactly the values and errors of the Stream's
\* rounds in that batch, in their order.  A parent that cannot be called
\* keeps the fast path off and is never invoked.
ParentOnBothTracks ==
  /\ [](\A b \in Batches, n \in Streams :
         BatchDone(b) =>
           ArgsOf(BatchLog(b), obs[n].parent) =
             IF Invocable(obs[n].parent) THEN EventsOf(BatchUpd(b), n)
             ELSE <<>>)
  /\ [][\A n \in Streams :
          /\ Invocable(obs[n].parent) =>
                ArgsOf(NewEntries, obs[n].parent) = EventsOf(NewRounds, n)
          /\ (CalledOutside(n) /\ obs[n].parent # NullCB) =>
                LET t == trigs'[Len(trigs')]
                IN  /\ Len(upd') > Len(upd)
                    /\ NewRounds[1] = RoundOf(n, t.pre, t.v, t.err)
                    /\ flow'.batch = flow.batch + 1
                    /\ t.b = flow'.batch
          /\ (CalledByDrain(n) /\ obs[n].parent # NullCB) =>
                LET e == log'[Len(log')]
                IN  /\ Len(upd') > Len(upd)
                    /\ NewRounds[1] =
                         RoundOf(n, obs[n].transforms, e.arg.v, e.cb = ECb(n))
                    /\ flow'.batch = flow.batch]_vars

\* Stream 1 has a parent, a mapping stage that throws on 7 and no listener
\* on either track: trigger(5) gave the parent 5, trigger(7) gave it the
\* error 7, each in a batch of its own.
ParentOnBothTracksWitness ==
  /\ obs[1].parent = ParentCB(1)
  /\ obs[1].listeners = <<>> /\ obs[1].errListeners = <<>>
  /\ obs[1].transforms = <<Stage("map", "boom", 0)>>
  /\ Len(trigs) = 2 /\ trigs[1].n = 1 /\ trigs[2].n = 1
  /\ ~trigs[1].err /\ ~trigs[2].err
  /\ flow.batch = 2 /\ BatchDone(2)
  /\ log = <<[cb |-> ParentCB(1), arg |-> Val(5), b |-> 1],
             [cb |-> ParentCB(1), arg |-> ErrVal(7), b |-> 2]>>

(***************************************************************************)
(* The cell of an accumulation and what is emitted (SpecAcc).              *)
(***************************************************************************)
\* A trigger of x with the pipeline ts applies stage k: no filter before k
\* rejects and no mapping before k throws.
Reaches(ts, k, x) ==
  RefRun(ts, k - 1, x).ok /\ ~PipelineThrows(SubSeq(ts, 1, k - 1), x)

\* The trigger t emits a value: it bypasses the pipeline, or every stage
\* is applied and the last one returns a value.
Emits(t) ==
  \/ ~t.ut
  \/ RefRun(t.pre, Len(t.pre), t.v).ok /\ ~PipelineThrows(t.pre, t.v)

\* The cell of stage k after the first i triggers, as the fold, from the
\* initial value 0, of the values those triggers brought to the stage.
RECURSIVE FoldReached(_, _)
FoldReached(i, k) ==
  IF i = 0 THEN 0
  ELSE LET t == trigs[i]
           prev == FoldReached(i - 1, k)
       IN  IF t.ut /\ k <= Len(t.pre) /\ Reaches(t.pre, k, t.v)
             THEN CombF(t.pre[k].f, prev, RefRun(t.pre, k - 1, t.v).x)
             ELSE prev

\* C22: a trigger sets the cell of every accumulation stage it applies to
\* combine(cell, input), whether or not a later stage then rejects the
\* value or throws, and leaves it alone when a stage before it rejects or
\* throws and when trigger is called with useTransformations = false; a
\* value round is made exactly for the triggers that bypass the pipeline
\* or pass every stage; so the cell is at any time the fold of the values
\* that reached the stage.
AccumulatorAdvances ==
  /\ \A i \in 1..Len(trigs) :
       LET t == trigs[i]
       IN  /\ \A k \in 1..Len(t.pre) :
                t.pre[k].op = "acc" =>
                  t.post[k].val =
                    IF t.ut /\ Reaches(t.pre, k, t.v)
                      THEN CombF(t.pre[k].f, t.pre[k].val,
                                 RefRun(t.pre, k - 1, t.v).x)
                      ELSE t.pre[k].val
           /\ Emits(t) =>
                /\ t.b # 0
                /\ Emitted(t.n, t.b) =
                     <<Val(IF t.ut THEN RefRun(t.pre, Len(t.pre), t.v).x
                           ELSE t.v)>>
           /\ ~Emits(t) => (t.b = 0 \/ Emitted(t.n, t.b) = <<>>)
  /\ \A k \in 1..Len(obs[PipeStream].transforms) :
       obs[PipeStream].transforms[k].op = "acc" =>
         obs[PipeStream].transforms[k].val = FoldReached(Len(trigs), k)

\* The pipeline accumulation(0, +), filtering(> 0), a mapping that throws
\* from 7 on: trigger(-1) was rejected by the filter, trigger(9) threw in
\* the mapping, trigger(3, false) bypassed the pipeline.  The consumer has
\* received 3 only and the cell holds 8, the fold of -1 and 9.
AccumulatorAdvancesWitness ==
  /\ Idle
  /\ Len(trigs) = 3
  /\ <<trigs[1].v, trigs[2].v, trigs[3].v>> = <<-1, 9, 3>>
  /\ <<trigs[1].ut, trigs[2].ut, trigs[3].ut>> = <<TRUE, TRUE, FALSE>>
  /\ obs[PipeStream].transforms =
       <<Stage("acc", "add", 8), Stage("filter", "pos", 0),
         Stage("map", "boom", 0)>>
  /\ Received = <<Val(3)>>
  /\ Len(SelectSeq(upd, LAMBDA u : u.err)) = 1

====
